---- MODULE Spec2Model ----
(***************************************************************************)
(* Model of the Context7 Python SDK (packages/py/sdk): the HTTP transport  *)
(* (HttpClient: lazily created connection handles, the retry loop, the     *)
(* decoding of a response, the extraction of the pagination headers) and   *)
(* the parts of the Context7 facade that stand in front of it.             *)
(*                                                                         *)
(* Python values are tagged records: Str(s) is a str, PyNone is None.      *)
(* Header values and library ids are sequences of one-character strings,   *)
(* so that startswith / count / lstrip / split / lower / int() are         *)
(* computed character by character.                                        *)
(***************************************************************************)
EXTENDS Integers, Sequences, FiniteSets, TLC

VARIABLES
    retries,        \* HttpClient.retries
    sync_client,    \* HttpClient._sync_client: a handle id, 0 is None
    async_client,   \* HttpClient._async_client: a handle id, 0 is None
    handles,        \* handles[h]: the state of handle h, for every handle created so far
    pc,             \* pc[c]: where call c stands
    args,           \* args[c]: the facade operation and its arguments
    mode,           \* mode[c]: "sync" (request) or "async" (request_async)
    client,         \* client[c]: the local variable `client` of request
    attempt,        \* attempt[c]: the loop variable `attempt`
    last_error,     \* last_error[c]: the local variable `last_error`
    nAttempts,      \* nAttempts[c]: how many times the call invoked client.request
    sleeps,         \* sleeps[c]: the attempt indices the call slept for, in order
    got,            \* got[c]: the HTTP response the call received, or NoResponse
    pre,            \* pre[c]: the handle fields when the call started
    outcome,        \* outcome[c]: what the call returned or raised
    response,       \* input of _handle_response (SpecHandle)
    handled,        \* its outcome
    txt_headers,    \* input of _extract_txt_headers (SpecExtract)
    extracted,      \* its outcome
    library_id,     \* input of _validate_library_id (SpecValidate)
    validated,      \* its outcome
    block,          \* the `with` / `async with` block around the calls (SpecBlock)
    script,         \* what each attempt of a call meets, in order (SpecModes)
    closing,        \* closing[m]: a close of mode m has closed the handle and not yet
                    \* cleared the field (SpecOverlap)
    api_key,        \* the api_key argument of Context7.__init__ (SpecKey)
    env_key,        \* os.environ.get("CONTEXT7_API_KEY")
    constructed,    \* what Context7.__init__ returned or raised
    docs_in,        \* input of _process_docs_response (SpecDocs)
    docs_out,       \* its outcome
    ctx_in,         \* the arguments and the response of get_context (SpecContext)
    ctx_out,        \* what get_context returned or raised
    req_in,         \* the arguments of HttpClient.request (SpecRequest)
    req_out,        \* what each attempt so far handed to client.request, in order
    build_in,       \* the arguments of _build_docs_request (SpecBuild)
    build_out,      \* its outcome
    retry_count,    \* the argument of _backoff (SpecBackoff)
    delay           \* the seconds it returned

clientVars == <<retries, sync_client, async_client, handles>>
callVars == <<pc, args, mode, client, attempt, last_error, nAttempts, sleeps, got, pre, outcome>>
handleVars == <<response, handled>>
extractVars == <<txt_headers, extracted>>
validateVars == <<library_id, validated>>
keyVars == <<api_key, env_key, constructed>>
docsVars == <<docs_in, docs_out>>
contextVars == <<ctx_in, ctx_out>>
requestVars == <<req_in, req_out>>
buildVars == <<build_in, build_out>>
backoffVars == <<retry_count, delay>>
moreVars == <<contextVars, requestVars, buildVars, backoffVars>>
pureVars == <<handleVars, extractVars, validateVars, keyVars, docsVars, moreVars>>
\* what the steps of a call and of close leave alone
otherVars == <<block, script, closing, pureVars>>
vars == <<clientVars, callVars, otherVars>>

(***************************************************************************)
(* Bounds of the model.                                                    *)
(***************************************************************************)
MaxRetries == 5
MaxHandles == 3
MaxIdLen == 5
MaxScript == 3
\* the retry counts _backoff is applied to
MaxRetryCount == 60

\* HttpClient.__init__: retries: int = 5
DefaultRetries == 5

(***************************************************************************)
(* Python values.                                                          *)
(***************************************************************************)
PyNone == [t |-> "None"]
Str(s) == [t |-> "str", s |-> s]

\* Truth value of a Python object: None and the empty str are falsy.
Truthy(v) == v # PyNone /\ v # Str("")

\* a or b
PyOr(a, b) == IF Truthy(a) THEN a ELSE b

\* an int, as a Python value (a status code that may also be None)
Num(n) == [t |-> "int", v |-> n]

Raise(e) == [kind |-> "raise", exc |-> e]
Pending == [kind |-> "pending"]

(***************************************************************************)
(* Strings as sequences of characters.                                     *)
(***************************************************************************)
Slash == "/"

StartsWith(s, ch) == Len(s) >= 1 /\ s[1] = ch

\* str.count for a one-character needle
Count(s, ch) == Cardinality({i \in 1..Len(s) : s[i] = ch})

\* str.lstrip(ch): every leading ch is removed
RECURSIVE LStrip(_, _)
LStrip(s, ch) == IF s # <<>> /\ s[1] = ch THEN LStrip(Tail(s), ch) ELSE s

\* str.split(ch): always at least one part, empty parts kept
RECURSIVE SplitFrom(_, _, _)
SplitFrom(s, ch, cur) ==
    IF s = <<>> THEN <<cur>>
    ELSE IF s[1] = ch THEN <<cur>> \o SplitFrom(Tail(s), ch, <<>>)
    ELSE SplitFrom(Tail(s), ch, Append(cur, s[1]))

Split(s, ch) == SplitFrom(s, ch, <<>>)

\* ch.join(parts)
RECURSIVE Join(_, _)
Join(parts, ch) ==
    IF parts = <<>> THEN <<>>
    ELSE IF Len(parts) = 1 THEN parts[1]
    ELSE parts[1] \o <<ch>> \o Join(Tail(parts), ch)

\* t in s
Contains(s, t) == \E i \in 0..(Len(s) - Len(t)) : SubSeq(s, i + 1, i + Len(t)) = t

(***************************************************************************)
(* int(str): surrounding whitespace is ignored, then an optional sign, then*)
(* decimal digits, single underscores allowed between digits. Anything     *)
(* else raises ValueError.                                                 *)
(***************************************************************************)
Digits == {"0", "1", "2", "3", "4", "5", "6", "7", "8", "9"}

DigitVal(ch) ==
    CASE ch = "0" -> 0 [] ch = "1" -> 1 [] ch = "2" -> 2 [] ch = "3" -> 3
      [] ch = "4" -> 4 [] ch = "5" -> 5 [] ch = "6" -> 6 [] ch = "7" -> 7
      [] ch = "8" -> 8 [] ch = "9" -> 9

RECURSIVE RStrip(_, _)
RStrip(s, ch) == IF s # <<>> /\ s[Len(s)] = ch THEN RStrip(SubSeq(s, 1, Len(s) - 1), ch) ELSE s

Strip(s, ch) == RStrip(LStrip(s, ch), ch)

\* digit (_? digit)*
RECURSIVE IsDigitString(_)
IsDigitString(s) ==
    /\ s # <<>>
    /\ s[1] \in Digits
    /\ \/ Len(s) = 1
       \/ Len(s) >= 2 /\ s[2] \in Digits /\ IsDigitString(Tail(s))
       \/ Len(s) >= 3 /\ s[2] = "_" /\ IsDigitString(Tail(Tail(s)))

RECURSIVE DigitsValue(_, _)
DigitsValue(s, acc) ==
    IF s = <<>> THEN acc
    ELSE IF s[1] = "_" THEN DigitsValue(Tail(s), acc)
    ELSE DigitsValue(Tail(s), 10 * acc + DigitVal(s[1]))

ValueError == [ok |-> FALSE]
Ok(v) == [ok |-> TRUE, v |-> v]

IntOfStr(str) ==
    LET s == Strip(str, " ")
        signed == s # <<>> /\ s[1] \in {"+", "-"}
        body == IF signed THEN Tail(s) ELSE s
    IN  IF ~IsDigitString(body) THEN ValueError
        ELSE IF signed /\ s[1] = "-" THEN Ok(0 - DigitsValue(body, 0))
        ELSE Ok(DigitsValue(body, 0))

\* str.lower() on the letters the model uses
LowerChar(ch) ==
    CASE ch = "T" -> "t" [] ch = "R" -> "r" [] ch = "U" -> "u" [] ch = "E" -> "e"
      [] ch = "F" -> "f" [] ch = "A" -> "a" [] ch = "L" -> "l" [] ch = "S" -> "s"
      [] ch = "M" -> "m" [] ch = "Y" -> "y" [] ch = "B" -> "b"
      [] OTHER -> ch

Lower(s) == [i \in 1..Len(s) |-> LowerChar(s[i])]

(***************************************************************************)
(* HttpClient._extract_txt_headers (http.py 169-181).                      *)
(* A header collection is a function from the names present to their       *)
(* values; headers.get(name, default) is Has / IntHeader / BoolHeader.                        *)
(***************************************************************************)
HPage == "x-context7-page"
HLimit == "x-context7-limit"
HTotalPages == "x-context7-total-pages"
HHasNext == "x-context7-has-next"
HHasPrev == "x-context7-has-prev"
HTotalTokens == "x-context7-total-tokens"
HContentType == "content-type"

IntHeaderNames == {HPage, HLimit, HTotalPages, HTotalTokens}
BoolHeaderNames == {HHasNext, HHasPrev}

Has(headers, name) == name \in DOMAIN headers

\* Faulty variant: an absent integer header counts as one that does not parse.
IntHeaderRequired(headers, name) ==
    IF Has(headers, name) THEN IntOfStr(headers[name]) ELSE ValueError

\* int(headers.get(name, 0))
IntHeader(headers, name) == IF Has(headers, name) THEN IntOfStr(headers[name]) ELSE Ok(0)

STrue == <<"t", "r", "u", "e">>
SFalse == <<"f", "a", "l", "s", "e">>

\* Faulty variant: a boolean header that is neither "true" nor "false" counts as true.
BoolHeaderLax(headers, name) ==
    Lower(IF Has(headers, name) THEN headers[name] ELSE SFalse) # SFalse

\* headers.get(name, "false").lower() == "true"
BoolHeader(headers, name) ==
    Lower(IF Has(headers, name) THEN headers[name] ELSE SFalse) = STrue

\* Faulty variant: a page header that does not parse is read as 0 and the rest is kept.
ExtractTxtHeadersPartial(headers) ==
    LET page == IntHeader(headers, HPage)
        limit == IntHeader(headers, HLimit)
        total_pages == IntHeader(headers, HTotalPages)
        total_tokens == IntHeader(headers, HTotalTokens)
    IN  IF ~(limit.ok /\ total_pages.ok /\ total_tokens.ok) THEN PyNone
        ELSE [t |-> "TxtResponseHeaders",
              page |-> IF page.ok THEN page.v ELSE 0,
              limit |-> limit.v,
              total_pages |-> total_pages.v,
              has_next |-> BoolHeader(headers, HHasNext),
              has_prev |-> BoolHeader(headers, HHasPrev),
              total_tokens |-> total_tokens.v]

\* Faulty variant: limit and total_pages are read from each other's header.
ExtractTxtHeadersSwapped(headers) ==
    LET page == IntHeader(headers, HPage)
        limit == IntHeader(headers, HTotalPages)
        total_pages == IntHeader(headers, HLimit)
        total_tokens == IntHeader(headers, HTotalTokens)
    IN  IF ~(page.ok /\ limit.ok /\ total_pages.ok /\ total_tokens.ok)
        THEN PyNone
        ELSE [t |-> "TxtResponseHeaders",
              page |-> page.v,
              limit |-> limit.v,
              total_pages |-> total_pages.v,
              has_next |-> BoolHeader(headers, HHasNext),
              has_prev |-> BoolHeader(headers, HHasPrev),
              total_tokens |-> total_tokens.v]

ExtractTxtHeaders(headers) ==
    LET page == IntHeader(headers, HPage)
        limit == IntHeader(headers, HLimit)
        total_pages == IntHeader(headers, HTotalPages)
        total_tokens == IntHeader(headers, HTotalTokens)
    IN  IF ~(page.ok /\ limit.ok /\ total_pages.ok /\ total_tokens.ok)
        THEN PyNone                         \* except (ValueError, TypeError)
        ELSE [t |-> "TxtResponseHeaders",
              page |-> page.v,
              limit |-> limit.v,
              total_pages |-> total_pages.v,
              has_next |-> BoolHeader(headers, HHasNext),
              has_prev |-> BoolHeader(headers, HHasPrev),
              total_tokens |-> total_tokens.v]

(***************************************************************************)
(* HTTP responses. A body is the text on the wire, described by what it    *)
(* is: text that is no JSON, or the JSON text of an object (a function     *)
(* from the keys present to their values), an array, a string, a number or *)
(* null.                                                                   *)
(***************************************************************************)
AppJson == <<"a", "p", "p", "l", "i", "c", "a", "t", "i", "o", "n", "/", "j", "s", "o", "n">>
TextPlain == <<"t", "e", "x", "t", "/", "p", "l", "a", "i", "n">>
Charset == <<";", " ", "c", "h", "a", "r", "s", "e", "t", "=", "u", "t", "f", "-", "8">>

NotJson(text) == [kind |-> "notjson", text |-> text]
JObject(fields) == [kind |-> "object", fields |-> fields]
JOther(kind) == [kind |-> kind]

\* response.json(): ValueError (json.JSONDecodeError) on text that is no JSON
Json(body) == IF body.kind = "notjson" THEN ValueError ELSE Ok([json |-> body])

\* response.text
Text(body) == [text |-> body]

\* response.is_success
IsSuccess(status_code) == 200 <= status_code /\ status_code <= 299

\* dict.get(key): None when the key is absent
DictGet(fields, key) == IF key \in DOMAIN fields THEN fields[key] ELSE PyNone

APIError(message, status_code) ==
    [kind |-> "raise", exc |-> "Context7APIError", message |-> message,
     status_code |-> status_code]

Return(value, headers) == [kind |-> "return", value |-> value, headers |-> headers]

\* response.headers.get("content-type", "")
ContentType(headers) == IF Has(headers, HContentType) THEN headers[HContentType] ELSE <<>>

(***************************************************************************)
(* HttpClient._handle_response (http.py 149-167).                          *)
(***************************************************************************)
\* the error branch, lines 151-159
ErrorResponse(resp) ==
    LET error_body == Json(resp.body)
        reason == Str(resp.reason_phrase)
    IN  IF ~error_body.ok
        THEN \* except (ValueError, KeyError, TypeError)
             APIError(PyOr(reason, Str("Unknown error")), Num(resp.status_code))
        ELSE IF error_body.v.json.kind # "object"
        THEN \* list / str / int / None have no attribute `get`
             Raise("AttributeError")
        ELSE LET fields == error_body.v.json.fields
             IN  APIError(PyOr(DictGet(fields, "error"),
                               PyOr(DictGet(fields, "message"), reason)),
                          Num(resp.status_code))

\* Faulty variant: the JSON branch attaches the extracted headers too.
SuccessResponseWithHeaders(resp) ==
    IF Contains(ContentType(resp.headers), AppJson)
    THEN LET decoded == Json(resp.body)
         IN  IF decoded.ok THEN Return(decoded.v, ExtractTxtHeaders(resp.headers))
             ELSE Raise("JSONDecodeError")
    ELSE Return(Text(resp.body), ExtractTxtHeaders(resp.headers))

\* the success branch, lines 161-167
SuccessResponse(resp) ==
    IF Contains(ContentType(resp.headers), AppJson)
    THEN LET decoded == Json(resp.body)
         IN  IF decoded.ok THEN Return(decoded.v, PyNone)
             ELSE Raise("JSONDecodeError")
    ELSE Return(Text(resp.body), ExtractTxtHeaders(resp.headers))

HandleResponse(resp) ==
    IF ~IsSuccess(resp.status_code) THEN ErrorResponse(resp) ELSE SuccessResponse(resp)

(***************************************************************************)
(* _validate_library_id (client.py 43-52).                                 *)
(***************************************************************************)
ValidateLibraryId(id) ==
    IF ~StartsWith(id, Slash) \/ Count(id, Slash) < 2
    THEN Raise("Context7ValidationError")
    ELSE LET parts == Split(LStrip(id, Slash), Slash)
         IN  [kind |-> "return", owner |-> parts[1], repo |-> Join(Tail(parts), Slash)]

(***************************************************************************)
(* The inputs the model draws from.                                        *)
(***************************************************************************)
WithHeader(headers, name, value) ==
    [n \in (DOMAIN headers) \cup {name} |-> IF n = name THEN value ELSE headers[n]]

NoHeaders == [n \in {} |-> <<>>]

\* values an integer header may carry: "5", "-3", " 12 ", "abc", ""
IntHeaderValues == {<<"5">>, <<"-", "3">>, <<" ", "1", "2", " ">>, <<"a", "b", "c">>, <<>>}

\* values a boolean header may carry: "true", "True", "false", "maybe", ""
BoolHeaderValues == {STrue, <<"T", "r", "u", "e">>, SFalse, <<"m", "a", "y", "b", "e">>, <<>>}

Missing == <<"missing">>

Present(choice) == [n \in {m \in DOMAIN choice : choice[m] # Missing} |-> choice[n]]

\* every collection of custom headers: each header absent or with one of its values
CustomHeaders ==
    { Present(i @@ b) :
      i \in [IntHeaderNames -> IntHeaderValues \cup {Missing}],
      b \in [BoolHeaderNames -> BoolHeaderValues \cup {Missing}] }

\* page 5, limit -3, total pages 12, a next page, no previous page, 5 tokens
GoodHeaders ==
    [n \in IntHeaderNames \cup BoolHeaderNames |->
        CASE n = HPage -> <<"5">>
          [] n = HLimit -> <<"-", "3">>
          [] n = HTotalPages -> <<" ", "1", "2", " ">>
          [] n = HHasNext -> <<"T", "r", "u", "e">>
          [] n = HHasPrev -> SFalse
          [] n = HTotalTokens -> <<"5">>]

BadPageHeaders == WithHeader(GoodHeaders, HPage, <<"a", "b", "c">>)

ContentTypes == {TextPlain, AppJson, AppJson \o Charset}

ResponseHeaders ==
    LET custom == {NoHeaders, GoodHeaders, BadPageHeaders}
    IN  custom \cup {WithHeader(h, HContentType, ct) : h \in custom, ct \in ContentTypes}

FieldValues == {PyNone, Str(""), Str("rate limited"), Str("try later")}

Bodies ==
    {NotJson("# docs"), NotJson("")}
    \cup {JObject(f) : f \in UNION {[S -> FieldValues] : S \in SUBSET {"error", "message"}}}
    \cup {JOther(k) : k \in {"array", "string", "number", "null"}}

StatusCodes == {200, 299, 300, 429, 599}

ReasonPhrases == {"", "Too Many Requests"}

Responses ==
    [status_code : StatusCodes, reason_phrase : ReasonPhrases,
     headers : ResponseHeaders, body : Bodies]

IdChars == {Slash, "a", "b"}

LibraryIds == UNION {[1..n -> IdChars] : n \in 0..MaxIdLen}

(***************************************************************************)
(* The client and its calls.                                               *)
(***************************************************************************)
Calls == {"c1", "c2"}

\* the calls of a caller that issues one call after the other
SeqCalls == {"c1"}

NoHandle == 0
NoResponse == [kind |-> "none"]
NoArgs == [op |-> "none"]

RetriesValues == (0 - 1)..MaxRetries

\* the responses and ids the calls of the client meet
CallResponses ==
    [status_code : {200, 429}, reason_phrase : {"Too Many Requests"},
     headers : {WithHeader(GoodHeaders, HContentType, AppJson),
                WithHeader(GoodHeaders, HContentType, TextPlain)},
     body : {NotJson("# docs"), JOther("array"), JObject([error |-> Str("rate limited")])}]

CallIds ==
    {<<"/", "a", "/", "b">>, <<"a", "/", "b">>, <<"/", "a">>, <<"/", "a", "/">>, <<>>}

ClientInit ==
    /\ retries \in RetriesValues
    /\ sync_client = NoHandle
    /\ async_client = NoHandle
    /\ handles = <<>>

CallsInit ==
    /\ pc = [c \in Calls |-> "idle"]
    /\ args = [c \in Calls |-> NoArgs]
    /\ mode = [c \in Calls |-> "sync"]
    /\ client = [c \in Calls |-> NoHandle]
    /\ attempt = [c \in Calls |-> 0]
    /\ last_error = [c \in Calls |-> PyNone]
    /\ nAttempts = [c \in Calls |-> 0]
    /\ sleeps = [c \in Calls |-> <<>>]
    /\ got = [c \in Calls |-> NoResponse]
    /\ pre = [c \in Calls |-> [sync |-> NoHandle, async |-> NoHandle, created |-> 0]]
    /\ outcome = [c \in Calls |-> Pending]

NoHandleInput == response = NoResponse /\ handled = Pending
NoExtractInput == txt_headers = NoHeaders /\ extracted = Pending
NoValidateInput == library_id = <<>> /\ validated = Pending
NoKeyInput == api_key = PyNone /\ env_key = PyNone /\ constructed = Pending
NoDocsInput == docs_in = [format |-> "none"] /\ docs_out = Pending

\* the calls are not inside a `with` block
NoBlock == [kind |-> "none", first |-> 0, last |-> 0, raised |-> FALSE]

\* nothing prescribes what the attempts meet
NoScript == <<>>

\* no close is under way
NoClosing == [sync |-> FALSE, async |-> FALSE]

Unscripted == block = NoBlock /\ script = NoScript /\ closing = NoClosing

NoContextInput == ctx_in = [type |-> "none"] /\ ctx_out = Pending
NoRequestInput == req_in = [method |-> "none"] /\ req_out = <<>>
NoBuildInput == build_in = [format |-> "none"] /\ build_out = Pending
NoBackoffInput == retry_count = 0 /\ delay = Pending
NoMoreInput == NoContextInput /\ NoRequestInput /\ NoBuildInput /\ NoBackoffInput

NoPureInput ==
    /\ NoHandleInput /\ NoExtractInput /\ NoValidateInput /\ NoKeyInput /\ NoDocsInput
    /\ NoMoreInput

Init == ClientInit /\ CallsInit /\ Unscripted /\ NoPureInput

(***************************************************************************)
(* Context7.get_docs / get_docs_async (client.py 338-346, 482-490) and     *)
(* search_library / search_library_async (client.py 222-227, 366-371).     *)
(***************************************************************************)
Modes == {"sync", "async"}

\* a call starts: its locals are fresh, the handle fields are remembered
Enter(c, m, a) ==
    /\ args' = [args EXCEPT ![c] = a]
    /\ mode' = [mode EXCEPT ![c] = m]
    /\ pre' = [pre EXCEPT ![c] = [sync |-> sync_client, async |-> async_client,
                                  created |-> Len(handles)]]
    /\ UNCHANGED <<client, attempt, last_error, nAttempts, sleeps, got>>

\* Faulty variant: the request is issued without validating the id first.
GetDocsUnvalidated(c, m, id) ==
    /\ pc[c] = "idle"
    /\ Enter(c, m, [op |-> "get_docs", library_id |-> id])
    /\ pc' = [pc EXCEPT ![c] = "resolve"]
    /\ outcome' = [outcome EXCEPT ![c] = Pending]
    /\ UNCHANGED <<clientVars, otherVars>>

\* _build_docs_request validates the id before self._http.request is called
GetDocs(c, m, id) ==
    /\ pc[c] = "idle"
    /\ Enter(c, m, [op |-> "get_docs", library_id |-> id])
    /\ LET v == ValidateLibraryId(id)
       IN  IF v.kind = "raise"
           THEN /\ pc' = [pc EXCEPT ![c] = "done"]
                /\ outcome' = [outcome EXCEPT ![c] = v]
           ELSE /\ pc' = [pc EXCEPT ![c] = "resolve"]
                /\ outcome' = [outcome EXCEPT ![c] = Pending]
    /\ UNCHANGED <<clientVars, otherVars>>

SearchLibrary(c, m) ==
    /\ pc[c] = "idle"
    /\ Enter(c, m, [op |-> "search_library"])
    /\ pc' = [pc EXCEPT ![c] = "resolve"]
    /\ outcome' = [outcome EXCEPT ![c] = Pending]
    /\ UNCHANGED <<clientVars, otherVars>>

(***************************************************************************)
(* HttpClient.request / request_async (http.py 89-147).                    *)
(***************************************************************************)
\* the handle field of a mode
Field(m) == IF m = "sync" THEN sync_client ELSE async_client

\* httpx: is_closed. A handle is "open", "closed" (the client closed it) or
\* "closed_outside" (it was closed by other means than the client's close).
IsClosed(h) == handles[h] # "open"

\* httpx sends on a handle that is not closed; a closed one raises RuntimeError
\* ("Cannot send a request, as the client has been closed."), and the call of
\* a method on None raises AttributeError
Usable(h) == h # NoHandle /\ ~IsClosed(h)

\* Faulty variant: no handle is kept, every request creates one.
NeedsHandleAlways(h) == TRUE

\* Faulty variant: a handle that is closed is taken for usable.
NeedsHandleNoneOnly(h) == h = NoHandle

\* line 55: self._sync_client is None or self._sync_client.is_closed
NeedsHandle(h) == h = NoHandle \/ IsClosed(h)

\* line 65: self._async_client is None or self._async_client.is_closed
NeedsHandleAsync(h) == h = NoHandle \/ IsClosed(h)

\* Faulty variant: the loop runs over range(self.retries + 2).
InRangeOneMore(i, r) == 0 <= i /\ i < r + 2

\* line 102: attempt in range(self.retries + 1)
InRange(i, r) == 0 <= i /\ i < r + 1

\* Faulty variant: the loop of request_async runs over range(self.retries).
InRangeAsyncOneLess(i, r) == 0 <= i /\ i < r

\* line 132: attempt in range(self.retries + 1)
InRangeAsync(i, r) == 0 <= i /\ i < r + 1

\* Faulty variant: the call sleeps after its last failed attempt too.
SleepsAfterEveryFailure(i, r) == TRUE

\* line 113: if attempt < self.retries
SleepsBeforeRetry(i, r) == i < r

\* line 143: if attempt < self.retries
SleepsBeforeRetryAsync(i, r) == i < r

\* line 117: raise last_error or Context7APIError("Exhausted all retries")
Exhausted(last) ==
    IF last # PyNone THEN last
    ELSE APIError(Str("Exhausted all retries"), PyNone)

\* line 147: raise last_error or Context7APIError("Exhausted all retries")
ExhaustedAsync(last) ==
    IF last # PyNone THEN last
    ELSE APIError(Str("Exhausted all retries"), PyNone)

\* the for loop moves to index i, or ends
LoopTo(c, i, last) ==
    IF (IF mode[c] = "sync" THEN InRange(i, retries) ELSE InRangeAsync(i, retries))
    THEN /\ attempt' = [attempt EXCEPT ![c] = i]
         /\ pc' = [pc EXCEPT ![c] = "attempt"]
         /\ UNCHANGED outcome
    ELSE /\ pc' = [pc EXCEPT ![c] = "done"]
         /\ outcome' = [outcome EXCEPT ![c] =
                           IF mode[c] = "sync" THEN Exhausted(last) ELSE ExhaustedAsync(last)]
         /\ UNCHANGED attempt

\* lines 97-102: _get_sync_client / _get_async_client, last_error = None, loop entry
GetClient(c) ==
    /\ pc[c] = "resolve"
    /\ IF (IF mode[c] = "sync" THEN NeedsHandle(sync_client)
                                ELSE NeedsHandleAsync(async_client))
       THEN /\ Len(handles) < MaxHandles
            /\ handles' = Append(handles, "open")
            /\ IF mode[c] = "sync"
               THEN sync_client' = Len(handles) + 1 /\ UNCHANGED async_client
               ELSE async_client' = Len(handles) + 1 /\ UNCHANGED sync_client
            /\ client' = [client EXCEPT ![c] = Len(handles) + 1]
       ELSE /\ client' = [client EXCEPT ![c] = Field(mode[c])]
            /\ UNCHANGED <<sync_client, async_client, handles>>
    /\ last_error' = [last_error EXCEPT ![c] = PyNone]
    /\ LoopTo(c, 0, PyNone)
    /\ UNCHANGED <<retries, args, mode, nAttempts, sleeps, got, pre, otherVars>>

\* the error httpx raises on attempt i
RequestError(i) == [kind |-> "raise", exc |-> "RequestError", attempt |-> i]

\* Faulty variant: the recorded error is kept on the client, one for all calls.
AttemptFailsShared(c) ==
    /\ pc[c] = "attempt"
    /\ Usable(client[c])
    /\ nAttempts' = [nAttempts EXCEPT ![c] = @ + 1]
    /\ last_error' = [d \in Calls |-> RequestError(attempt[c])]
    /\ IF (IF mode[c] = "sync" THEN SleepsBeforeRetry(attempt[c], retries)
                                ELSE SleepsBeforeRetryAsync(attempt[c], retries))
       THEN /\ sleeps' = [sleeps EXCEPT ![c] = Append(@, attempt[c])]
            /\ pc' = [pc EXCEPT ![c] = "sleep"]
            /\ UNCHANGED <<attempt, outcome>>
       ELSE /\ LoopTo(c, attempt[c] + 1, RequestError(attempt[c]))
            /\ UNCHANGED sleeps
    /\ UNCHANGED <<clientVars, args, mode, client, got, pre, otherVars>>

\* lines 111-115: client.request raises httpx.RequestError
AttemptFails(c) ==
    /\ pc[c] = "attempt"
    /\ Usable(client[c])
    /\ nAttempts' = [nAttempts EXCEPT ![c] = @ + 1]
    /\ last_error' = [last_error EXCEPT ![c] = RequestError(attempt[c])]
    /\ IF (IF mode[c] = "sync" THEN SleepsBeforeRetry(attempt[c], retries)
                                ELSE SleepsBeforeRetryAsync(attempt[c], retries))
       THEN /\ sleeps' = [sleeps EXCEPT ![c] = Append(@, attempt[c])]
            /\ pc' = [pc EXCEPT ![c] = "sleep"]
            /\ UNCHANGED <<attempt, outcome>>
       ELSE /\ LoopTo(c, attempt[c] + 1, RequestError(attempt[c]))
            /\ UNCHANGED sleeps
    /\ UNCHANGED <<clientVars, args, mode, client, got, pre, otherVars>>

\* Faulty variant: after the sleep the same attempt is made again (a loop that
\* does not advance).
SleepRepeats(c) ==
    /\ pc[c] = "sleep"
    /\ pc' = [pc EXCEPT ![c] = "attempt"]
    /\ UNCHANGED <<clientVars, args, mode, client, attempt, last_error, nAttempts, sleeps,
                   got, pre, outcome, otherVars>>

\* time.sleep / asyncio.sleep returns; continue
Sleep(c) ==
    /\ pc[c] = "sleep"
    /\ LoopTo(c, attempt[c] + 1, last_error[c])
    /\ UNCHANGED <<clientVars, args, mode, client, last_error, nAttempts, sleeps, got, pre, otherVars>>

\* Faulty variant: a response that follows a failed attempt is dropped and the
\* recorded error is raised.
AttemptRespondsAfterFailure(c, resp) ==
    /\ pc[c] = "attempt"
    /\ nAttempts' = [nAttempts EXCEPT ![c] = @ + 1]
    /\ got' = [got EXCEPT ![c] = resp]
    /\ outcome' = [outcome EXCEPT ![c] =
                      IF last_error[c] # PyNone THEN last_error[c] ELSE HandleResponse(resp)]
    /\ pc' = [pc EXCEPT ![c] = "done"]
    /\ UNCHANGED <<clientVars, args, mode, client, attempt, last_error, sleeps, pre, otherVars>>

\* Faulty variant: a non-success response is retried like a transport failure.
AttemptRespondsRetrying(c, resp) ==
    /\ pc[c] = "attempt"
    /\ nAttempts' = [nAttempts EXCEPT ![c] = @ + 1]
    /\ got' = [got EXCEPT ![c] = resp]
    /\ IF ~IsSuccess(resp.status_code) /\ attempt[c] < retries
       THEN /\ sleeps' = [sleeps EXCEPT ![c] = Append(@, attempt[c])]
            /\ pc' = [pc EXCEPT ![c] = "sleep"]
            /\ UNCHANGED outcome
       ELSE /\ outcome' = [outcome EXCEPT ![c] = HandleResponse(resp)]
            /\ pc' = [pc EXCEPT ![c] = "done"]
            /\ UNCHANGED sleeps
    /\ UNCHANGED <<clientVars, args, mode, client, attempt, last_error, pre, otherVars>>

\* Faulty variant: a response that makes the call raise tears the handle down.
AttemptRespondsClosing(c, resp) ==
    /\ pc[c] = "attempt"
    /\ Usable(client[c])
    /\ nAttempts' = [nAttempts EXCEPT ![c] = @ + 1]
    /\ got' = [got EXCEPT ![c] = resp]
    /\ outcome' = [outcome EXCEPT ![c] = HandleResponse(resp)]
    /\ pc' = [pc EXCEPT ![c] = "done"]
    /\ IF HandleResponse(resp).kind = "raise"
       THEN /\ handles' = [handles EXCEPT ![client[c]] = "closed"]
            /\ IF mode[c] = "sync"
               THEN sync_client' = NoHandle /\ UNCHANGED async_client
               ELSE async_client' = NoHandle /\ UNCHANGED sync_client
       ELSE UNCHANGED <<handles, sync_client, async_client>>
    /\ UNCHANGED <<retries, args, mode, client, attempt, last_error, sleeps, pre, otherVars>>

\* lines 104-110: client.request returns a response; return self._handle_response(response)
AttemptResponds(c, resp) ==
    /\ pc[c] = "attempt"
    /\ Usable(client[c])
    /\ nAttempts' = [nAttempts EXCEPT ![c] = @ + 1]
    /\ got' = [got EXCEPT ![c] = resp]
    /\ outcome' = [outcome EXCEPT ![c] = HandleResponse(resp)]
    /\ pc' = [pc EXCEPT ![c] = "done"]
    /\ UNCHANGED <<clientVars, args, mode, client, attempt, last_error, sleeps, pre, otherVars>>

\* the call has returned or raised; its locals are gone
Finish(c) ==
    /\ pc[c] = "done"
    /\ pc' = [pc EXCEPT ![c] = "idle"]
    /\ args' = [args EXCEPT ![c] = NoArgs]
    /\ mode' = [mode EXCEPT ![c] = "sync"]
    /\ client' = [client EXCEPT ![c] = NoHandle]
    /\ attempt' = [attempt EXCEPT ![c] = 0]
    /\ last_error' = [last_error EXCEPT ![c] = PyNone]
    /\ nAttempts' = [nAttempts EXCEPT ![c] = 0]
    /\ sleeps' = [sleeps EXCEPT ![c] = <<>>]
    /\ got' = [got EXCEPT ![c] = NoResponse]
    /\ pre' = [pre EXCEPT ![c] = [sync |-> NoHandle, async |-> NoHandle, created |-> 0]]
    /\ outcome' = [outcome EXCEPT ![c] = Pending]
    /\ UNCHANGED <<clientVars, otherVars>>

(***************************************************************************)
(* HttpClient.close / close_async (http.py 73-83).                         *)
(***************************************************************************)
\* Faulty variant: the handle is closed but the field keeps referring to it.
CloseKeepsField ==
    /\ \A c \in SeqCalls : pc[c] = "idle"
    /\ IF sync_client # NoHandle
       THEN handles' = [handles EXCEPT ![sync_client] = "closed"]
       ELSE UNCHANGED handles
    /\ UNCHANGED <<retries, sync_client, async_client, callVars, otherVars>>

\* Faulty variant: close tears down the handles of both modes.
CloseBoth ==
    /\ \A c \in SeqCalls : pc[c] = "idle"
    /\ handles' = [h \in 1..Len(handles) |->
                       IF h \in {sync_client, async_client} THEN "closed" ELSE handles[h]]
    /\ sync_client' = NoHandle
    /\ async_client' = NoHandle
    /\ UNCHANGED <<retries, callVars, otherVars>>

\* lines 75-77
CloseSyncHandle ==
    IF sync_client # NoHandle
    THEN /\ handles' = [handles EXCEPT ![sync_client] = "closed"]
         /\ sync_client' = NoHandle
    ELSE UNCHANGED <<handles, sync_client>>

\* lines 81-83
CloseAsyncHandle ==
    IF async_client # NoHandle
    THEN /\ handles' = [handles EXCEPT ![async_client] = "closed"]
         /\ async_client' = NoHandle
    ELSE UNCHANGED <<handles, async_client>>

Close ==
    /\ \A c \in SeqCalls : pc[c] = "idle"
    /\ CloseSyncHandle
    /\ UNCHANGED <<retries, async_client, callVars, otherVars>>

CloseAsync ==
    /\ \A c \in SeqCalls : pc[c] = "idle"
    /\ CloseAsyncHandle
    /\ UNCHANGED <<retries, sync_client, callVars, otherVars>>

\* the handle of mode m is closed by other means than close / close_async (its
\* owner closes it directly, say): the field still refers to it, is_closed
\* (lines 55, 65) is what tells
ClosedOutside(m) ==
    /\ \A c \in SeqCalls : pc[c] = "idle"
    /\ Field(m) # NoHandle
    /\ handles[Field(m)] = "open"
    /\ handles' = [handles EXCEPT ![Field(m)] = "closed_outside"]
    /\ UNCHANGED <<retries, sync_client, async_client, callVars, otherVars>>

Next ==
    \/ \E c \in SeqCalls, m \in Modes, id \in CallIds : GetDocs(c, m, id)
    \/ \E c \in SeqCalls, m \in Modes : SearchLibrary(c, m)
    \/ \E c \in SeqCalls : GetClient(c)
    \/ \E c \in SeqCalls : AttemptFails(c)
    \/ \E c \in SeqCalls : Sleep(c)
    \/ \E c \in SeqCalls, resp \in CallResponses : AttemptResponds(c, resp)
    \/ \E c \in SeqCalls : Finish(c)
    \/ Close
    \/ CloseAsync
    \/ \E m \in Modes : ClosedOutside(m)

Spec == Init /\ [][Next]_vars

\* every attempt ends, with a response or with a transport error
Attempt(c) == AttemptFails(c) \/ \E resp \in CallResponses : AttemptResponds(c, resp)

\* The calls of Spec where every attempt and every backoff sleep ends, and
\* the straight-line code before the loop is executed.
SpecLive ==
    /\ Init /\ [][Next]_vars
    /\ \A c \in SeqCalls :
           WF_vars(GetClient(c)) /\ WF_vars(Attempt(c)) /\ WF_vars(Sleep(c))

(***************************************************************************)
(* Context7 as a context manager (client.py 179-202): the calls of a       *)
(* sequential caller inside one `with` or `async with` block. __exit__     *)
(* runs when the block is left, after a call returned or with the          *)
(* exception a call raised; the client can still be used afterwards.       *)
(***************************************************************************)
BlockKinds == {"with", "async_with"}

BlockRetries == {0, 1}

InitBlock ==
    /\ retries \in BlockRetries
    /\ sync_client = NoHandle
    /\ async_client = NoHandle
    /\ handles = <<>>
    /\ CallsInit /\ Unscripted /\ NoPureInput

\* __enter__ / __aenter__: return self
EnterBlock(k) ==
    /\ block.kind = "none"
    /\ \A c \in SeqCalls : pc[c] = "idle"
    /\ block' = [kind |-> k, first |-> Len(handles), last |-> 0, raised |-> FALSE]
    /\ UNCHANGED <<clientVars, callVars, script, closing, pureVars>>

\* the block is left: a call that has returned or raised is over
CallsOver ==
    /\ pc' = [c \in Calls |-> "idle"]
    /\ args' = [c \in Calls |-> NoArgs]
    /\ mode' = [c \in Calls |-> "sync"]
    /\ client' = [c \in Calls |-> NoHandle]
    /\ attempt' = [c \in Calls |-> 0]
    /\ last_error' = [c \in Calls |-> PyNone]
    /\ nAttempts' = [c \in Calls |-> 0]
    /\ sleeps' = [c \in Calls |-> <<>>]
    /\ got' = [c \in Calls |-> NoResponse]
    /\ pre' = [c \in Calls |-> [sync |-> NoHandle, async |-> NoHandle, created |-> 0]]
    /\ outcome' = [c \in Calls |-> Pending]

Exited(kind) ==
    [kind |-> kind, first |-> block.first, last |-> Len(handles),
     raised |-> \E c \in SeqCalls : pc[c] = "done" /\ outcome[c].kind = "raise"]

\* __exit__ (lines 183-185): self.close(), that is self._http.close()
ExitBlock ==
    /\ block.kind = "with"
    /\ \A c \in SeqCalls : pc[c] \in {"idle", "done"}
    /\ CallsOver
    /\ CloseSyncHandle
    /\ block' = Exited("exited")
    /\ UNCHANGED <<retries, async_client, script, closing, pureVars>>

\* __aexit__ (lines 192-194): await self.close_async(), that is self._http.close_async()
ExitBlockAsync ==
    /\ block.kind = "async_with"
    /\ \A c \in SeqCalls : pc[c] \in {"idle", "done"}
    /\ CallsOver
    /\ CloseAsyncHandle
    /\ block' = Exited("async_exited")
    /\ UNCHANGED <<retries, sync_client, script, closing, pureVars>>

NextBlock ==
    \/ \E k \in BlockKinds : EnterBlock(k)
    \/ \E c \in SeqCalls, m \in Modes, id \in CallIds : GetDocs(c, m, id)
    \/ \E c \in SeqCalls, m \in Modes : SearchLibrary(c, m)
    \/ \E c \in SeqCalls : GetClient(c)
    \/ \E c \in SeqCalls : AttemptFails(c)
    \/ \E c \in SeqCalls : Sleep(c)
    \/ \E c \in SeqCalls, resp \in CallResponses : AttemptResponds(c, resp)
    \/ \E c \in SeqCalls : Finish(c)
    \/ Close
    \/ CloseAsync
    \/ ExitBlock
    \/ ExitBlockAsync

SpecBlock == InitBlock /\ [][NextBlock]_vars

(***************************************************************************)
(* request beside request_async (http.py 89-117, 119-147): call c1 goes    *)
(* through request, then call c2 through request_async with the same       *)
(* arguments, and attempt number n of either meets script[n]: a transport  *)
(* error or a response.                                                    *)
(***************************************************************************)
Fails == [kind |-> "fail"]
Responds(resp) == [kind |-> "respond", resp |-> resp]

ScriptResponses ==
    [status_code : {200, 429}, reason_phrase : {"Too Many Requests"},
     headers : {WithHeader(GoodHeaders, HContentType, AppJson),
                WithHeader(GoodHeaders, HContentType, TextPlain)},
     body : {JObject([error |-> Str("rate limited")])}]

ScriptOutcomes == {Fails} \cup {Responds(r) : r \in ScriptResponses}

\* the budgets a script of MaxScript outcomes is long enough for
ScriptRetries == (0 - 1)..(MaxScript - 1)

InitModes ==
    /\ retries \in ScriptRetries
    /\ sync_client = NoHandle
    /\ async_client = NoHandle
    /\ handles = <<>>
    /\ CallsInit /\ NoPureInput
    /\ block = NoBlock /\ closing = NoClosing
    /\ script \in [1..MaxScript -> ScriptOutcomes]

\* c1 calls a method of the facade that goes through request
RunSync ==
    \/ SearchLibrary("c1", "sync")
    \/ \E id \in CallIds : GetDocs("c1", "sync", id)

\* c1 is over: c2 calls the async twin of that method with the same arguments
RunAsync ==
    /\ pc["c1"] = "done"
    /\ \/ args["c1"].op = "search_library" /\ SearchLibrary("c2", "async")
       \/ args["c1"].op = "get_docs" /\ GetDocs("c2", "async", args["c1"].library_id)

\* client.request / await client.request: the attempt meets what the script says
ScriptedAttempt(c) ==
    /\ pc[c] = "attempt"
    /\ nAttempts[c] < Len(script)
    /\ LET o == script[nAttempts[c] + 1]
       IN  IF o.kind = "fail" THEN AttemptFails(c) ELSE AttemptResponds(c, o.resp)

NextModes ==
    \/ RunSync
    \/ RunAsync
    \/ \E c \in Calls : GetClient(c)
    \/ \E c \in Calls : ScriptedAttempt(c)
    \/ \E c \in Calls : Sleep(c)

SpecModes == InitModes /\ [][NextModes]_vars

(***************************************************************************)
(* The pure functions, each applied to every input of its bounded set.     *)
(***************************************************************************)
\* a client that was constructed with the defaults and has made no call
ClientQuiet ==
    /\ retries = DefaultRetries
    /\ sync_client = NoHandle
    /\ async_client = NoHandle
    /\ handles = <<>>
    /\ CallsInit
    /\ Unscripted

InitHandle ==
    /\ ClientQuiet /\ NoExtractInput /\ NoValidateInput /\ NoKeyInput /\ NoDocsInput
    /\ NoMoreInput
    /\ response \in Responses
    /\ handled = Pending

ApplyHandleResponse ==
    /\ handled = Pending
    /\ handled' = HandleResponse(response)
    /\ UNCHANGED <<response, clientVars, callVars, block, script, closing, moreVars,
                   extractVars, validateVars, keyVars, docsVars>>

SpecHandle == InitHandle /\ [][ApplyHandleResponse]_vars

InitExtract ==
    /\ ClientQuiet /\ NoHandleInput /\ NoValidateInput /\ NoKeyInput /\ NoDocsInput
    /\ NoMoreInput
    /\ txt_headers \in CustomHeaders
    /\ extracted = Pending

ApplyExtractTxtHeaders ==
    /\ extracted = Pending
    /\ extracted' = ExtractTxtHeaders(txt_headers)
    /\ UNCHANGED <<txt_headers, clientVars, callVars, block, script, closing, moreVars,
                   handleVars, validateVars, keyVars, docsVars>>

SpecExtract == InitExtract /\ [][ApplyExtractTxtHeaders]_vars

InitValidate ==
    /\ ClientQuiet /\ NoHandleInput /\ NoExtractInput /\ NoKeyInput /\ NoDocsInput
    /\ NoMoreInput
    /\ library_id \in LibraryIds
    /\ validated = Pending

ApplyValidateLibraryId ==
    /\ validated = Pending
    /\ validated' = ValidateLibraryId(library_id)
    /\ UNCHANGED <<library_id, clientVars, callVars, block, script, closing, moreVars,
                   handleVars, extractVars, keyVars, docsVars>>

SpecValidate == InitValidate /\ [][ApplyValidateLibraryId]_vars

(***************************************************************************)
(* _validate_api_key and Context7.__init__ (client.py 19-40, 152-176).     *)
(* A key is a str whose characters are kept, or None.                      *)
(***************************************************************************)
Key(chars) == [t |-> "str", s |-> chars]

\* truth value of a key: None and "" are falsy
KeyTruthy(k) == k # PyNone /\ Len(k.s) > 0

\* str.startswith
HasPrefix(s, prefix) == Len(s) >= Len(prefix) /\ SubSeq(s, 1, Len(prefix)) = prefix

\* API_KEY_PREFIX = "ctx7sk"
ApiKeyPrefix == <<"c", "t", "x", "7", "s", "k">>

Context7Error(warned) == [kind |-> "raise", exc |-> "Context7Error", warnings |-> warned]

\* Faulty variant: the environment variable wins over the argument.
ValidateApiKeyEnvFirst(key, env) ==
    LET resolved_api_key == IF KeyTruthy(env) THEN env ELSE key
    IN  IF ~KeyTruthy(resolved_api_key)
        THEN Context7Error(0)
        ELSE [kind |-> "return", value |-> resolved_api_key,
              warnings |-> IF HasPrefix(resolved_api_key.s, ApiKeyPrefix) THEN 0 ELSE 1]

\* Faulty variant: a key without the prefix is refused.
ValidateApiKeyStrict(key, env) ==
    LET resolved_api_key == IF KeyTruthy(key) THEN key ELSE env
    IN  IF ~KeyTruthy(resolved_api_key)
        THEN Context7Error(0)
        ELSE IF ~HasPrefix(resolved_api_key.s, ApiKeyPrefix)
        THEN Context7Error(1)
        ELSE [kind |-> "return", value |-> resolved_api_key, warnings |-> 0]

\* _validate_api_key, env being os.environ.get("CONTEXT7_API_KEY"); `warnings`
\* counts the calls of warnings.warn
ValidateApiKey(key, env) ==
    LET resolved_api_key == IF KeyTruthy(key) THEN key ELSE env     \* api_key or env
    IN  IF ~KeyTruthy(resolved_api_key)
        THEN Context7Error(0)
        ELSE [kind |-> "return", value |-> resolved_api_key,
              warnings |-> IF HasPrefix(resolved_api_key.s, ApiKeyPrefix) THEN 0 ELSE 1]

Bearer == <<"B", "e", "a", "r", "e", "r", " ">>

NoHttp == [t |-> "None"]

\* HttpClient.__init__ (http.py 46-51) with the headers the facade passes
NewHttpClient(headers) ==
    [t |-> "HttpClient",
     headers |-> headers @@ ("Content-Type" :> AppJson),     \* {"Content-Type": ..., **headers}
     retries |-> DefaultRetries,
     sync_client |-> NoHandle,
     async_client |-> NoHandle]

\* Context7.__init__: an exception of _validate_api_key leaves no client behind
NewContext7(key, env) ==
    LET resolved == ValidateApiKey(key, env)
    IN  IF resolved.kind = "raise"
        THEN [kind |-> "raise", exc |-> resolved.exc, warnings |-> resolved.warnings,
              http |-> NoHttp]
        ELSE [kind |-> "return", warnings |-> resolved.warnings,
              http |-> NewHttpClient([Authorization |-> Bearer \o resolved.value.s])]

\* "", "ctx7sk", "ctx7sk-1", "ctx7sk-2", "ctx7s", "xctx7sk", "Ctx7sk-1", "bad"
KeyStrings ==
    {<<>>,
     ApiKeyPrefix,
     ApiKeyPrefix \o <<"-", "1">>,
     ApiKeyPrefix \o <<"-", "2">>,
     <<"c", "t", "x", "7", "s">>,
     <<"x">> \o ApiKeyPrefix,
     <<"C", "t", "x", "7", "s", "k", "-", "1">>,
     <<"b", "a", "d">>}

KeyInputs == {PyNone} \cup {Key(k) : k \in KeyStrings}

InitKey ==
    /\ ClientQuiet /\ NoHandleInput /\ NoExtractInput /\ NoValidateInput /\ NoDocsInput
    /\ NoMoreInput
    /\ api_key \in KeyInputs
    /\ env_key \in KeyInputs
    /\ constructed = Pending

Construct ==
    /\ constructed = Pending
    /\ constructed' = NewContext7(api_key, env_key)
    /\ UNCHANGED <<api_key, env_key, clientVars, callVars, block, script, closing, moreVars,
                   handleVars,
                   extractVars, validateVars, docsVars>>

SpecKey == InitKey /\ [][Construct]_vars

(***************************************************************************)
(* _process_docs_response (client.py 81-104) behind _handle_response, that *)
(* is get_docs / get_docs_async from the response on (client.py 338-346,   *)
(* 482-490). The response models are pydantic models (models.py): a field  *)
(* declared str takes a str only, model_validate takes an object that has  *)
(* every required field, each snippet fitting the snippet model.           *)
(***************************************************************************)
\* the result of _handle_response is a str: response.text, or a JSON string
IsStr(result) ==
    \/ "text" \in DOMAIN result
    \/ "json" \in DOMAIN result /\ result.json.kind = "string"

DocsFieldNames == {"snippets", "pagination", "totalTokens"}

\* DocsResponseBase and its subclasses: pagination, totalTokens and snippets are
\* required, every snippet is one of the subclass (InfoSnippet / CodeSnippet)
FitsDocs(result, snippet) ==
    /\ "json" \in DOMAIN result
    /\ result.json.kind = "object"
    /\ DocsFieldNames \subseteq DOMAIN result.json.fields
    /\ \A i \in 1..Len(result.json.fields.snippets) :
           result.json.fields.snippets[i] = snippet

Returned(value) == [kind |-> "return", value |-> value]

\* InfoDocsResponse.model_validate / CodeDocsResponse.model_validate
\* Faulty variant: the pagination of the payload is not read, the result
\* carries the block of a first and only page.
PaginationDefaulted(p) ==
    [page |-> 1, limit |-> 0, total_pages |-> 1, has_next |-> FALSE, has_prev |-> FALSE]

\* Pagination (models.py 93-102): the payload's page, limit, totalPages, hasNext,
\* hasPrev become page, limit, total_pages, has_next, has_prev
ValidatePagination(p) ==
    [page |-> p.page, limit |-> p.limit, total_pages |-> p.totalPages,
     has_next |-> p.hasNext, has_prev |-> p.hasPrev]

ModelValidate(class, snippet, result) ==
    IF FitsDocs(result, snippet)
    THEN Returned([t |-> class,
                   snippets |-> result.json.fields.snippets,
                   pagination |-> ValidatePagination(result.json.fields.pagination),
                   total_tokens |-> result.json.fields.totalTokens])
    ELSE Raise("ValidationError")

\* Faulty variant: without headers every number of the pagination is 0.
TxtPaginationZero(headers) ==
    [page |-> IF headers # PyNone THEN headers.page ELSE 0,
     limit |-> IF headers # PyNone THEN headers.limit ELSE 0,
     total_pages |-> IF headers # PyNone THEN headers.total_pages ELSE 0,
     has_next |-> IF headers # PyNone THEN headers.has_next ELSE FALSE,
     has_prev |-> IF headers # PyNone THEN headers.has_prev ELSE FALSE]

\* Faulty variant: a page or a number of pages below 1 is reported as 1.
TxtPaginationAtLeastOne(headers) ==
    [page |-> IF headers # PyNone /\ headers.page >= 1 THEN headers.page ELSE 1,
     limit |-> IF headers # PyNone THEN headers.limit ELSE 0,
     total_pages |-> IF headers # PyNone /\ headers.total_pages >= 1
                     THEN headers.total_pages ELSE 1,
     has_next |-> IF headers # PyNone THEN headers.has_next ELSE FALSE,
     has_prev |-> IF headers # PyNone THEN headers.has_prev ELSE FALSE]

\* lines 89-95: the pagination of a text response, defaulted without headers
TxtPagination(headers) ==
    [page |-> IF headers # PyNone THEN headers.page ELSE 1,
     limit |-> IF headers # PyNone THEN headers.limit ELSE 0,
     total_pages |-> IF headers # PyNone THEN headers.total_pages ELSE 1,
     has_next |-> IF headers # PyNone THEN headers.has_next ELSE FALSE,
     has_prev |-> IF headers # PyNone THEN headers.has_prev ELSE FALSE]

\* lines 96-100: TextDocsResponse(content=result, ...), content: str
TextDocs(result, headers) ==
    IF IsStr(result)
    THEN Returned([t |-> "TextDocsResponse",
                   content |-> result,
                   pagination |-> TxtPagination(headers),
                   total_tokens |-> IF headers # PyNone THEN headers.total_tokens ELSE 0])
    ELSE Raise("ValidationError")

\* Faulty variant: the kind of the value follows what the response carries.
ProcessDocsResponseByContent(result, headers, docs_mode, format) ==
    IF IsStr(result)
    THEN TextDocs(result, headers)
    ELSE IF docs_mode = "info"
    THEN ModelValidate("InfoDocsResponse", "info", result)
    ELSE ModelValidate("CodeDocsResponse", "code", result)

ProcessDocsResponse(result, headers, docs_mode, format) ==
    IF format = "txt"
    THEN TextDocs(result, headers)
    ELSE IF docs_mode = "info"
    THEN ModelValidate("InfoDocsResponse", "info", result)
    ELSE ModelValidate("CodeDocsResponse", "code", result)

\* result, headers = self._http.request(...); return _process_docs_response(...)
DocsOf(resp, docs_mode, format) ==
    LET handled_ == HandleResponse(resp)
    IN  IF handled_.kind # "return" THEN handled_
        ELSE ProcessDocsResponse(handled_.value, handled_.headers, docs_mode, format)

\* the first of one page of five, the second of four pages of three
FirstPage == [page |-> 1, limit |-> 5, totalPages |-> 1, hasNext |-> FALSE, hasPrev |-> FALSE]
SecondPage == [page |-> 2, limit |-> 3, totalPages |-> 4, hasNext |-> TRUE, hasPrev |-> TRUE]

DocsObject(snippets, pagination) ==
    JObject([snippets |-> snippets, pagination |-> pagination, totalTokens |-> 7])

DocsBodies ==
    {DocsObject(<<>>, FirstPage), DocsObject(<<"info">>, FirstPage),
     DocsObject(<<"code">>, FirstPage), DocsObject(<<"info", "code">>, FirstPage),
     DocsObject(<<"info">>, SecondPage), DocsObject(<<"code">>, SecondPage),
     JObject([snippets |-> <<"info">>]),
     NotJson("# docs"), JOther("string"), JOther("array")}

\* the 2xx responses a get_docs call may receive
DocsResponses ==
    [status_code : {200, 299}, reason_phrase : {"OK"},
     headers : {NoHeaders, GoodHeaders} \cup
               {WithHeader(h, HContentType, ct) :
                    h \in {GoodHeaders, BadPageHeaders}, ct \in ContentTypes},
     body : DocsBodies]

DocsModes == {"info", "code"}
DocsFormats == {"json", "txt"}

InitDocs ==
    /\ ClientQuiet /\ NoHandleInput /\ NoExtractInput /\ NoValidateInput /\ NoKeyInput
    /\ NoMoreInput
    /\ docs_in \in [resp : DocsResponses, mode : DocsModes, format : DocsFormats]
    /\ docs_out = Pending

ApplyProcessDocsResponse ==
    /\ docs_out = Pending
    /\ docs_out' = DocsOf(docs_in.resp, docs_in.mode, docs_in.format)
    /\ UNCHANGED <<docs_in, clientVars, callVars, block, script, closing, moreVars,
                   handleVars,
                   extractVars, validateVars, keyVars>>

SpecDocs == InitDocs /\ [][ApplyProcessDocsResponse]_vars

(***************************************************************************)
(* get_context / get_context_async of packages/python/sdk (client.py       *)
(* 246-291, 340-388) with _process_context_response (client.py 80-99) and  *)
(* the _handle_response of that package (http.py 137-154), which returns   *)
(* the decoded body alone.                                                 *)
(***************************************************************************)
\* the `type` a call without a `type` argument runs with (client.py 251, 345)
DefaultContextType == "txt"

\* _handle_response of packages/python/sdk: the branches of HandleResponse,
\* the body returned without headers
HandleResponseBody(resp) ==
    LET handled_ == HandleResponse(resp)
    IN  IF handled_.kind = "return" THEN Returned(handled_.value) ELSE handled_

\* the number of characters of response.text
RawLen(body) == IF body.kind = "notjson" THEN Len(body.text) ELSE body.chars

\* the first character of response.text
RawHead(body) ==
    IF body.kind = "notjson" THEN body.text[1]
    ELSE IF body.kind = "object" THEN "{" ELSE "["

\* `result, _ = self._http.request(...)` (client.py 282, 378): the returned
\* value is iterated and has to yield exactly two items: the characters of a
\* str, the keys of a dict in their order, the elements of a list. Any other
\* number of items raises ValueError, a value that is not iterable (a
\* number, null) TypeError.
Unpack2(value) ==
    IF "text" \in DOMAIN value
    THEN IF RawLen(value.text) = 2
         THEN Returned(Text(NotJson(<<RawHead(value.text)>>)))
         ELSE Raise("ValueError")
    ELSE IF value.json.kind = "object"
    THEN IF Len(value.json.order) = 2
         THEN Returned(Text(NotJson(value.json.order[1])))
         ELSE Raise("ValueError")
    ELSE IF value.json.kind = "array"
    THEN IF Len(value.json.items) = 2
         THEN Returned([json |-> value.json.items[1]])
         ELSE Raise("ValueError")
    ELSE Raise("TypeError")

Documentation(title, content, source) ==
    [t |-> "Documentation", title |-> title, content |-> content, source |-> source]

\* _format_code_snippet (client.py 44-55)
FormatCodeSnippet(snippet) ==
    Documentation(snippet.code_title,
                  <<snippet.code_description, snippet.code_list>>,
                  PyOr(snippet.page_title, snippet.code_id))

\* _format_info_snippet (client.py 58-64)
FormatInfoSnippet(snippet) ==
    Documentation(PyOr(snippet.breadcrumb, Str("Documentation")),
                  snippet.content, snippet.page_id)

\* ApiContextJsonResponse.model_validate(result) (client.py 90): an object that
\* has the two lists lines 92-96 read; anything else is a ValidationError
FitsContext(result) ==
    /\ "json" \in DOMAIN result
    /\ result.json.kind = "object"
    /\ {"code_snippets", "info_snippets"} \subseteq DOMAIN result.json.fields

\* _process_context_response (client.py 80-99)
ProcessContextResponse(result, response_type) ==
    IF response_type = "txt"
    THEN IF IsStr(result) THEN Returned(result) ELSE Returned(Text(NotJson(<<>>)))
    ELSE IF ~FitsContext(result) THEN Raise("ValidationError")
    ELSE LET code == result.json.fields.code_snippets
             info == result.json.fields.info_snippets
         IN  Returned([t |-> "list",
                       docs |-> [i \in 1..Len(code) |-> FormatCodeSnippet(code[i])]
                                \o [i \in 1..Len(info) |-> FormatInfoSnippet(info[i])]])

\* get_context(query, library_id, type=...) from the response on
GetContext(type_arg, resp) ==
    LET type == IF type_arg = "absent" THEN DefaultContextType ELSE type_arg
        handled_ == HandleResponseBody(resp)
    IN  IF handled_.kind # "return" THEN handled_
        ELSE LET unpacked == Unpack2(handled_.value)
             IN  IF unpacked.kind # "return" THEN unpacked
                 ELSE ProcessContextResponse(unpacked.value, type)

HooksCode ==
    [code_title |-> Str("useState"), code_description |-> Str("State in a component"),
     code_list |-> <<"jsx">>, page_title |-> PyNone, code_id |-> Str("react/hooks#1")]

HooksInfo ==
    [breadcrumb |-> PyNone, content |-> Str("Hooks let you use state"),
     page_id |-> Str("react/hooks")]

\* the payload of a context answer: two keys, 120 characters as text
ContextObject ==
    [kind |-> "object",
     fields |-> [code_snippets |-> <<HooksCode>>, info_snippets |-> <<HooksInfo>>],
     order |-> <<"code_snippets", "info_snippets">>, chars |-> 120]

\* the same with a third key
ContextObjectWithRules ==
    [kind |-> "object",
     fields |-> [code_snippets |-> <<HooksCode>>, info_snippets |-> <<HooksInfo>>,
                 rules |-> <<>>],
     order |-> <<"code_snippets", "info_snippets", "rules">>, chars |-> 132]

\* a JSON array of two context payloads
ContextPair ==
    [kind |-> "array", items |-> <<ContextObject, ContextObjectWithRules>>, chars |-> 255]

ContextBodies ==
    {NotJson(<<"#", " ", "d", "o", "c", "s">>), NotJson(<<"o", "k">>),
     ContextObject, ContextObjectWithRules, ContextPair}

ContextResponses ==
    [status_code : {200, 404}, reason_phrase : {"Not Found"},
     headers : {NoHeaders, WithHeader(NoHeaders, HContentType, AppJson),
                WithHeader(NoHeaders, HContentType, TextPlain)},
     body : ContextBodies]

\* the `type` argument: left out, "txt" or "json"
ContextTypes == {"absent", "txt", "json"}

InitContext ==
    /\ ClientQuiet /\ NoHandleInput /\ NoExtractInput /\ NoValidateInput /\ NoKeyInput
    /\ NoDocsInput /\ NoRequestInput /\ NoBuildInput /\ NoBackoffInput
    /\ ctx_in \in [type : ContextTypes, mode : Modes, resp : ContextResponses]
    /\ ctx_out = Pending

ApplyGetContext ==
    /\ ctx_out = Pending
    /\ ctx_out' = GetContext(ctx_in.type, ctx_in.resp)
    /\ UNCHANGED <<ctx_in, clientVars, callVars, block, script, closing, handleVars, extractVars,
                   validateVars, keyVars, docsVars, requestVars, buildVars,
                   backoffVars>>

SpecContext == InitContext /\ [][ApplyGetContext]_vars

(***************************************************************************)
(* HttpClient._backoff (http.py 85-87): math.exp(retry_count) * 0.05. A    *)
(* positive real is kept exactly as num / den * e^e_pow, num / den in      *)
(* lowest terms; the rounding of the floating-point product is left out.   *)
(***************************************************************************)
RECURSIVE Gcd(_, _)
Gcd(a, b) == IF b = 0 THEN a ELSE Gcd(b, a % b)

Real(num, den, e_pow) ==
    [num |-> num \div Gcd(num, den), den |-> den \div Gcd(num, den), e_pow |-> e_pow]

\* math.exp(x) for an integer x
MathExp(x) == Real(1, 1, x)

\* a * b
Times(a, b) == Real(a.num * b.num, a.den * b.den, a.e_pow + b.e_pow)

\* a < b, decided where the factors and the powers of e point the same way
Less(a, b) ==
    /\ a # b
    /\ a.num * b.den <= b.num * a.den
    /\ a.e_pow <= b.e_pow

\* Faulty variant: the delay stops growing after the fourth retry.
BackoffCapped(n) ==
    Times(MathExp(IF n < 4 THEN n ELSE 4), Real(5, 100, 0))

Backoff(n) == Times(MathExp(n), Real(5, 100, 0))

InitBackoff ==
    /\ ClientQuiet /\ NoHandleInput /\ NoExtractInput /\ NoValidateInput /\ NoKeyInput
    /\ NoDocsInput /\ NoContextInput /\ NoRequestInput /\ NoBuildInput
    /\ retry_count \in 0..MaxRetryCount
    /\ delay = Pending

ApplyBackoff ==
    /\ delay = Pending
    /\ delay' = Backoff(retry_count)
    /\ UNCHANGED <<retry_count, clientVars, callVars, block, script, closing, handleVars,
                   extractVars, validateVars, keyVars, docsVars, contextVars, requestVars,
                   buildVars>>

SpecBackoff == InitBackoff /\ [][ApplyBackoff]_vars

(***************************************************************************)
(* What request / request_async hand to client.request in each attempt     *)
(* (http.py 97-110, 127-140), every attempt failing with a transport       *)
(* error so that the next one is made.                                     *)
(***************************************************************************)
PyFalse == [t |-> "bool", b |-> FALSE]

EmptyDict == [k \in {} |-> PyNone]

\* query or {}
QueryOrEmpty(query) == IF query = PyNone THEN EmptyDict ELSE query

\* Faulty variant: entries with a falsy value (None, 0, "", False) are dropped.
FilterParamsTruthy(query) ==
    LET q == QueryOrEmpty(query)
    IN  [k \in {k \in DOMAIN q : q[k] \notin {PyNone, Num(0), Str(""), PyFalse}} |-> q[k]]

\* lines 98, 128: {k: v for k, v in (query or {}).items() if v is not None}
FilterParams(query) ==
    LET q == QueryOrEmpty(query)
    IN  [k \in {k \in DOMAIN q : q[k] # PyNone} |-> q[k]]

\* lines 97, 127: the segments "/".join puts together
Url(base_url, path) == <<base_url>> \o (IF path = PyNone THEN <<>> ELSE path)

\* Faulty variant: the parameters and the body are attached whatever the method.
ClientRequestBoth(method, url, params, body) ==
    [method |-> method, url |-> url, params |-> params, json |-> body]

\* lines 104-109, 134-139: the arguments of client.request
ClientRequest(method, url, params, body) ==
    [method |-> method, url |-> url,
     params |-> IF method = "GET" THEN params ELSE PyNone,
     json |-> IF method = "POST" THEN body ELSE PyNone]

BaseUrl == "https://context7.com/api"

RequestMethods == {"GET", "POST", "DELETE"}

QueryKeys == {"query", "page"}

QueryValues == {PyNone, Num(0), Str(""), PyFalse, Str("react")}

Queries == {PyNone} \cup UNION {[keys -> QueryValues] : keys \in SUBSET QueryKeys}

RequestBodies == {PyNone, [query |-> Str("react")]}

InitRequest ==
    /\ ClientQuiet /\ NoHandleInput /\ NoExtractInput /\ NoValidateInput /\ NoKeyInput
    /\ NoDocsInput /\ NoContextInput /\ NoBuildInput /\ NoBackoffInput
    /\ req_in \in [method : RequestMethods, mode : Modes, path : {<<"v2", "search">>},
                   query : Queries, body : RequestBodies]
    /\ req_out = <<>>

\* one attempt of the loop: client.request is called and raises RequestError
RequestAttempt ==
    /\ req_in.method \in RequestMethods
    /\ IF req_in.mode = "sync" THEN InRange(Len(req_out), retries)
                               ELSE InRangeAsync(Len(req_out), retries)
    /\ req_out' = Append(req_out,
                         ClientRequest(req_in.method, Url(BaseUrl, req_in.path),
                                       FilterParams(req_in.query), req_in.body))
    /\ UNCHANGED <<req_in, clientVars, callVars, block, script, closing, handleVars, extractVars,
                   validateVars, keyVars, docsVars, contextVars, buildVars, backoffVars>>

SpecRequest == InitRequest /\ [][RequestAttempt]_vars

(***************************************************************************)
(* _build_docs_request (client.py 55-78) and the request get_docs /        *)
(* get_docs_async make of it (client.py 338-345, 482-489).                 *)
(***************************************************************************)
\* Faulty variant: whatever version is given becomes a segment.
VersionSegmentAlways(version) == IF version # PyNone THEN <<version.s>> ELSE <<"None">>

\* lines 68-69: if version: path.append(version)
VersionSegment(version) == IF Truthy(version) THEN <<version.s>> ELSE <<>>

BuildDocsRequest(id, version, page, topic, limit, docs_mode, format) ==
    LET split == ValidateLibraryId(id)
    IN  IF split.kind # "return" THEN split
        ELSE [kind |-> "return",
              path |-> <<"v2", "docs", docs_mode, split.owner, split.repo>>
                       \o VersionSegment(version),
              query |-> [type |-> Str(format), page |-> page, limit |-> limit,
                         topic |-> topic]]

\* path, query = _build_docs_request(...); self._http.request("GET", path, query)
DocsRequest(a) ==
    LET built == BuildDocsRequest(a.library_id, a.version, a.page, a.topic, a.limit,
                                  a.mode, a.format)
    IN  IF built.kind # "return" THEN built
        ELSE [kind |-> "return", path |-> built.path, query |-> built.query,
              sent |-> ClientRequest("GET", Url(BaseUrl, built.path),
                                     FilterParams(built.query), PyNone)]

BuildIds ==
    {<<"/", "a", "/", "b">>, <<"/", "a", "/", "b", "/", "a">>, <<"a", "/", "b">>, <<"/", "a">>}

BuildInputs ==
    [library_id : BuildIds, version : {PyNone, Str(""), Str("v18")},
     page : {PyNone, Num(0), Num(2)}, topic : {PyNone, Str(""), Str("hooks")},
     limit : {PyNone, Num(10)}, mode : DocsModes, format : DocsFormats]

InitBuild ==
    /\ ClientQuiet /\ NoHandleInput /\ NoExtractInput /\ NoValidateInput /\ NoKeyInput
    /\ NoDocsInput /\ NoContextInput /\ NoRequestInput /\ NoBackoffInput
    /\ build_in \in BuildInputs
    /\ build_out = Pending

ApplyBuildDocsRequest ==
    /\ build_out = Pending
    /\ build_out' = DocsRequest(build_in)
    /\ UNCHANGED <<build_in, clientVars, callVars, block, script, closing, handleVars, extractVars,
                   validateVars, keyVars, docsVars, contextVars, requestVars, backoffVars>>

SpecBuild == InitBuild /\ [][ApplyBuildDocsRequest]_vars

(***************************************************************************)
(* Calls that overlap on one client: two threads in request, or two        *)
(* request_async coroutines, with close / close_async called beside them.  *)
(* A thread may be preempted between any two lines; a coroutine gives way  *)
(* only at an await, so _get_async_client (no await inside) is one step    *)
(* and close_async gives way at `await self._async_client.aclose()`.       *)
(***************************************************************************)
OverlapRetries == {0, 1}

OverlapResponses ==
    [status_code : {200, 429}, reason_phrase : {"Too Many Requests"},
     headers : {WithHeader(GoodHeaders, HContentType, TextPlain)},
     body : {NotJson("# docs")}]

InitOverlap ==
    /\ retries \in OverlapRetries
    /\ sync_client = NoHandle
    /\ async_client = NoHandle
    /\ handles = <<>>
    /\ CallsInit /\ Unscripted /\ NoPureInput

\* _get_sync_client, line 55: the thread evaluates the condition
CheckSyncHandle(c) ==
    /\ pc[c] = "resolve"
    /\ mode[c] = "sync"
    /\ pc' = [pc EXCEPT ![c] = IF NeedsHandle(sync_client) THEN "create" ELSE "take"]
    /\ UNCHANGED <<clientVars, args, mode, client, attempt, last_error, nAttempts, sleeps,
                   got, pre, outcome, otherVars>>

\* lines 56-60: self._sync_client = httpx.Client(...)
CreateSyncHandle(c) ==
    /\ pc[c] = "create"
    /\ Len(handles) < MaxHandles
    /\ handles' = Append(handles, "open")
    /\ sync_client' = Len(handles) + 1
    /\ pc' = [pc EXCEPT ![c] = "take"]
    /\ UNCHANGED <<retries, async_client, args, mode, client, attempt, last_error,
                   nAttempts, sleeps, got, pre, outcome, otherVars>>

\* line 61: return self._sync_client; then lines 100-102
TakeSyncHandle(c) ==
    /\ pc[c] = "take"
    /\ client' = [client EXCEPT ![c] = sync_client]
    /\ last_error' = [last_error EXCEPT ![c] = PyNone]
    /\ LoopTo(c, 0, PyNone)
    /\ UNCHANGED <<clientVars, args, mode, nAttempts, sleeps, got, pre, otherVars>>

\* _get_async_client and the loop entry of request_async: one step
GetAsyncClient(c) == mode[c] = "async" /\ GetClient(c)

\* Faulty variant: an attempt that finds its handle closed resolves the handle
\* again and goes on with a fresh one.
AttemptReResolves(c) ==
    /\ pc[c] = "attempt"
    /\ ~Usable(client[c])
    /\ Len(handles) < MaxHandles
    /\ handles' = Append(handles, "open")
    /\ IF mode[c] = "sync"
       THEN sync_client' = Len(handles) + 1 /\ UNCHANGED async_client
       ELSE async_client' = Len(handles) + 1 /\ UNCHANGED sync_client
    /\ client' = [client EXCEPT ![c] = Len(handles) + 1]
    /\ UNCHANGED <<retries, pc, args, mode, attempt, last_error, nAttempts, sleeps, got,
                   pre, outcome, otherVars>>

\* client.request on a handle that is closed, or on None: the error is no
\* httpx.RequestError, the except clause lets it through and the call is over
AttemptOnClosedHandle(c) ==
    /\ pc[c] = "attempt"
    /\ ~Usable(client[c])
    /\ nAttempts' = [nAttempts EXCEPT ![c] = @ + 1]
    /\ outcome' = [outcome EXCEPT ![c] =
                      IF client[c] = NoHandle THEN Raise("AttributeError")
                                              ELSE Raise("RuntimeError")]
    /\ pc' = [pc EXCEPT ![c] = "done"]
    /\ UNCHANGED <<clientVars, args, mode, client, attempt, last_error, sleeps, got, pre,
                   otherVars>>

\* close, lines 75-76, and close_async, lines 81-82 up to the await: the field
\* is not None and its handle is closed (is_closed is true from here on)
CloseBegins(m) ==
    /\ ~closing[m]
    /\ Field(m) # NoHandle
    /\ handles' = [handles EXCEPT ![Field(m)] = "closed"]
    /\ closing' = [closing EXCEPT ![m] = TRUE]
    /\ UNCHANGED <<retries, sync_client, async_client, callVars, block, script, pureVars>>

\* lines 77, 83: self._sync_client = None / self._async_client = None
CloseEnds(m) ==
    /\ closing[m]
    /\ IF m = "sync" THEN sync_client' = NoHandle /\ UNCHANGED async_client
                     ELSE async_client' = NoHandle /\ UNCHANGED sync_client
    /\ closing' = [closing EXCEPT ![m] = FALSE]
    /\ UNCHANGED <<retries, handles, callVars, block, script, pureVars>>

\* two threads call search_library, others call close
NextThreads ==
    \/ \E c \in Calls : SearchLibrary(c, "sync")
    \/ \E c \in Calls : CheckSyncHandle(c)
    \/ \E c \in Calls : CreateSyncHandle(c)
    \/ \E c \in Calls : TakeSyncHandle(c)
    \/ \E c \in Calls : AttemptFails(c)
    \/ \E c \in Calls : Sleep(c)
    \/ \E c \in Calls, resp \in OverlapResponses : AttemptResponds(c, resp)
    \/ \E c \in Calls : AttemptOnClosedHandle(c)
    \/ \E c \in Calls : Finish(c)
    \/ CloseBegins("sync")
    \/ CloseEnds("sync")

SpecThreads == InitOverlap /\ [][NextThreads]_vars

\* two coroutines call search_library_async, others call close_async
NextCoroutines ==
    \/ \E c \in Calls : SearchLibrary(c, "async")
    \/ \E c \in Calls : GetAsyncClient(c)
    \/ \E c \in Calls : AttemptFails(c)
    \/ \E c \in Calls : Sleep(c)
    \/ \E c \in Calls, resp \in OverlapResponses : AttemptResponds(c, resp)
    \/ \E c \in Calls : AttemptOnClosedHandle(c)
    \/ \E c \in Calls : Finish(c)
    \/ CloseBegins("async")
    \/ CloseEnds("async")

SpecCoroutines == InitOverlap /\ [][NextCoroutines]_vars

(***************************************************************************)
(* Context7.search_library / search_library_async of packages/python/sdk   *)
(* (client.py 202-226, 294-318), from the response on.                     *)
(***************************************************************************)
Library(id, name, description, total_snippets, trust_score, benchmark_score, versions) ==
    [t |-> "Library", id |-> id, name |-> name, description |-> description,
     total_snippets |-> total_snippets, trust_score |-> trust_score,
     benchmark_score |-> benchmark_score, versions |-> versions]

\* `x or 0` for a number that may be None
OrZero(x) == IF x = PyNone \/ x = Num(0) THEN Num(0) ELSE x

\* _format_library (client.py 67-77) of ApiSearchResult.model_validate(item):
\* an optional field that the item leaves out reads as None
FormatLibrary(item) ==
    Library(item.id, item.title, item.description,
            OrZero(DictGet(item, "total_snippets")),
            OrZero(DictGet(item, "trust_score")),
            OrZero(DictGet(item, "benchmark_score")),
            DictGet(item, "versions"))

\* lines 225-226: result["results"], one Library per item, in order. A str
\* cannot be indexed by a str (TypeError); a dict without the key raises
\* KeyError.
Libraries(result) ==
    IF "text" \in DOMAIN result \/ result.json.kind # "object"
    THEN Raise("TypeError")
    ELSE IF "results" \notin DOMAIN result.json.fields
    THEN Raise("KeyError")
    ELSE LET items == result.json.fields.results
         IN  Returned([t |-> "list",
                       libs |-> [i \in 1..Len(items) |-> FormatLibrary(items[i])]])

\* Faulty variant: the facade takes what request returns as it is.
SearchLibraryNoUnpack(resp) ==
    LET handled_ == HandleResponseBody(resp)
    IN  IF handled_.kind # "return" THEN handled_ ELSE Libraries(handled_.value)

\* search_library(query, library_name) from the response on (lines 220-226)
SearchLibraryResult(resp) ==
    LET handled_ == HandleResponseBody(resp)
    IN  IF handled_.kind # "return" THEN handled_
        ELSE LET unpacked == Unpack2(handled_.value)
             IN  IF unpacked.kind # "return" THEN unpacked
                 ELSE Libraries(unpacked.value)

ReactItem ==
    [id |-> Str("/facebook/react"), title |-> Str("React"),
     description |-> Str("A UI library"), total_snippets |-> Num(1250),
     trust_score |-> Num(9), benchmark_score |-> Num(0)]

\* an item without total_snippets, trust_score and benchmark_score
PreactItem ==
    [id |-> Str("/preactjs/preact"), title |-> Str("Preact"),
     description |-> Str("Fast 3kB alternative")]

\* the payload of a search answer: one key
SearchObject(items, chars) ==
    [kind |-> "object", fields |-> [results |-> items], order |-> <<"results">>,
     chars |-> chars]

\* the same with the metadata of the answer: two keys
SearchObjectWithMetadata ==
    [kind |-> "object",
     fields |-> [results |-> <<ReactItem, PreactItem>>, metadata |-> <<>>],
     order |-> <<"results", "metadata">>, chars |-> 260]

\* a JSON array of two search payloads
SearchPair ==
    [kind |-> "array",
     items |-> <<SearchObject(<<PreactItem>>, 90), SearchObject(<<>>, 14)>>, chars |-> 108]

SearchBodies ==
    {SearchObject(<<>>, 14), SearchObject(<<ReactItem>>, 140),
     SearchObject(<<ReactItem, PreactItem>>, 230), SearchObjectWithMetadata,
     SearchPair, NotJson(<<"o", "k">>)}

SearchResponses ==
    [status_code : {200, 404}, reason_phrase : {"Not Found"},
     headers : {NoHeaders, WithHeader(NoHeaders, HContentType, AppJson),
                WithHeader(NoHeaders, HContentType, TextPlain)},
     body : SearchBodies]

InitSearch ==
    /\ ClientQuiet /\ NoHandleInput /\ NoExtractInput /\ NoValidateInput /\ NoKeyInput
    /\ NoDocsInput /\ NoRequestInput /\ NoBuildInput /\ NoBackoffInput
    /\ ctx_in \in [type : {"search"}, mode : Modes, resp : SearchResponses]
    /\ ctx_out = Pending

ApplySearchLibrary ==
    /\ ctx_out = Pending
    /\ ctx_out' = SearchLibraryResult(ctx_in.resp)
    /\ UNCHANGED <<ctx_in, clientVars, callVars, block, script, closing, handleVars, extractVars,
                   validateVars, keyVars, docsVars, requestVars, buildVars,
                   backoffVars>>

SpecSearch == InitSearch /\ [][ApplySearchLibrary]_vars

(***************************************************************************)
(* Properties of the retry loop (Spec).                                    *)
(***************************************************************************)
\* the call is over and no attempt of it received a response
AllAttemptsFailed(c) ==
    /\ pc[c] = "done"
    /\ got[c] = NoResponse
    /\ outcome[c] # Raise("Context7ValidationError")

\* C1: with retries >= 0, in either mode, a call never makes more than
\* retries + 1 attempts, and a call whose attempts all failed with a transport
\* error made exactly retries + 1 attempts and raises the error of the last one.
ExhaustedCallRaisesLastError ==
    \A c \in Calls :
        retries >= 0 =>
            /\ nAttempts[c] <= retries + 1
            /\ AllAttemptsFailed(c) =>
                   /\ nAttempts[c] = retries + 1
                   /\ outcome[c] = RequestError(retries)

\* C1 witness: retries = 2, an async call has failed three times and raises
\* the error of its third attempt.
ExhaustedAfterThreeAttempts ==
    \E c \in Calls :
        /\ retries = 2 /\ mode[c] = "async" /\ AllAttemptsFailed(c)
        /\ nAttempts[c] = 3
        /\ outcome[c] = RequestError(2)

\* the call is over and its last attempt received a success response
Succeeded(c) ==
    /\ pc[c] = "done"
    /\ got[c] # NoResponse
    /\ IsSuccess(got[c].status_code)

\* the response is declared JSON
DeclaredJson(resp) == Contains(ContentType(resp.headers), AppJson)

Refused(c) ==
    /\ pc[c] = "done"
    /\ got[c] # NoResponse
    /\ ~IsSuccess(got[c].status_code)

\* C3: a call that received a response makes no further attempt and does not
\* sleep after it; a non-success response makes the call raise Context7APIError
\* with the status code of the response.
ResponseEndsTheCall ==
    \A c \in Calls :
        /\ got[c] # NoResponse =>
               /\ pc[c] = "done"
               /\ nAttempts[c] = Len(sleeps[c]) + 1
        /\ Refused(c) =>
               /\ outcome[c].exc = "Context7APIError"
               /\ outcome[c].status_code = Num(got[c].status_code)

\* C6: a get_docs / get_docs_async call whose library_id does not start with
\* "/" or has fewer than two "/"-delimited segments after it is over at once
\* with Context7ValidationError, has made no attempt, and the handle fields and
\* the set of handles are what they were when the call started.
FailsIdRules(id) == ~StartsWith(id, Slash) \/ Len(Split(Tail(id), Slash)) < 2

InvalidIdMakesNoRequest ==
    \A c \in Calls :
        (args[c].op = "get_docs" /\ FailsIdRules(args[c].library_id)) =>
            /\ pc[c] = "done"
            /\ outcome[c] = Raise("Context7ValidationError")
            /\ nAttempts[c] = 0
            /\ client[c] = NoHandle
            /\ sync_client = pre[c].sync
            /\ async_client = pre[c].async
            /\ Len(handles) = pre[c].created

\* C6 witness: get_docs("/a") on a client that already holds a sync handle has
\* raised Context7ValidationError without an attempt.
SingleSegmentIdRejected ==
    \E c \in Calls :
        /\ args[c] = [op |-> "get_docs", library_id |-> <<"/", "a">>]
        /\ pc[c] = "done"
        /\ outcome[c] = Raise("Context7ValidationError")
        /\ nAttempts[c] = 0
        /\ sync_client # NoHandle
        /\ sync_client = pre[c].sync

(***************************************************************************)
(* Properties of _handle_response (SpecHandle).                            *)
(***************************************************************************)
\* the message the documented precedence gives: the body's `error` field if
\* present and non-empty, else its `message` field, else the reason phrase,
\* else "Unknown error"
MessageByPrecedence(resp) ==
    LET fields == IF resp.body.kind = "object" THEN resp.body.fields ELSE NoHeaders
        error == DictGet(fields, "error")
        message == DictGet(fields, "message")
    IN  IF Truthy(error) THEN error
        ELSE IF Truthy(message) THEN message
        ELSE IF resp.reason_phrase # "" THEN Str(resp.reason_phrase)
        ELSE Str("Unknown error")

\* C4: for a non-success response whose body is a JSON object or is no JSON at
\* all, the raised Context7APIError carries the message the precedence gives.
MessageFollowsPrecedence ==
    (/\ handled # Pending
     /\ ~IsSuccess(response.status_code)
     /\ response.body.kind \in {"object", "notjson"}) =>
        /\ handled.exc = "Context7APIError"
        /\ handled.message = MessageByPrecedence(response)

\* C5: for every non-success response, whatever its body, _handle_response
\* raises Context7APIError with the status code of the response.
ErrorBodyDegradesGracefully ==
    (handled # Pending /\ ~IsSuccess(response.status_code)) =>
        /\ handled.kind = "raise"
        /\ handled.exc = "Context7APIError"
        /\ handled.status_code = Num(response.status_code)

AcceptedIdHasOwnerAndRepo ==
    (validated # Pending /\ validated.kind = "return") =>
        /\ StartsWith(library_id, Slash)
        /\ validated.owner # <<>>
        /\ validated.repo # <<>>

\* C26: for every accepted library_id the owner is the first segment after the
\* leading slash and the repo the whole remainder, embedded slashes kept: the
\* split loses nothing, "/" + owner + "/" + repo is the library_id.
SplitIsLossless ==
    (validated # Pending /\ validated.kind = "return") =>
        <<Slash>> \o validated.owner \o <<Slash>> \o validated.repo = library_id

(***************************************************************************)
(* Properties of _extract_txt_headers (SpecExtract).                       *)
(***************************************************************************)
\* the header is present and its value is no integer
MalformedInt(headers, name) == Has(headers, name) /\ ~IntOfStr(headers[name]).ok

\* the header is present and its value is neither "true" nor "false"
MalformedBool(headers, name) ==
    Has(headers, name) /\ Lower(headers[name]) \notin {STrue, SFalse}

\* C8 as stated: a single present header that is malformed for its type, integer
\* or boolean, makes the extraction return None.
AnyMalformedHeaderGivesNone ==
    (/\ extracted # Pending
     /\ \/ \E n \in IntHeaderNames : MalformedInt(txt_headers, n)
        \/ \E n \in BoolHeaderNames : MalformedBool(txt_headers, n)) =>
        extracted = PyNone

\* C8 as amended: a present integer header that is malformed makes the
\* extraction return None, never a partly filled structure; a malformed boolean
\* header does not: when the integer headers parse the structure is returned and
\* the malformed boolean reads as false.
MalformedIntHeaderGivesNone ==
    extracted # Pending =>
        IF \E n \in IntHeaderNames : MalformedInt(txt_headers, n)
        THEN extracted = PyNone
        ELSE /\ extracted # PyNone
             /\ MalformedBool(txt_headers, HHasNext) => ~extracted.has_next
             /\ MalformedBool(txt_headers, HHasPrev) => ~extracted.has_prev

\* C8 witness: only the page header is malformed ("abc"), the other five are
\* present and well-formed, and the extraction returned None.
MalformedPageGivesNone ==
    /\ txt_headers = BadPageHeaders
    /\ extracted = PyNone

\* all six headers are present and well-formed
AllWellFormed(headers) ==
    /\ \A n \in IntHeaderNames : Has(headers, n) /\ IntOfStr(headers[n]).ok
    /\ \A n \in BoolHeaderNames : Has(headers, n) /\ Lower(headers[n]) \in {STrue, SFalse}

\* C9: with all six headers present and well-formed the extraction returns a
\* structure whose integer fields are the integer values of their headers and
\* whose boolean fields are the boolean values of theirs; page "5", limit "-3",
\* total pages " 12 ", has-next "True", has-prev "false", total tokens "5"
\* give (5, -3, 12, true, false, 5).
WellFormedHeadersAreCopied ==
    (extracted # Pending /\ AllWellFormed(txt_headers)) =>
        /\ extracted # PyNone
        /\ extracted.page = IntOfStr(txt_headers[HPage]).v
        /\ extracted.limit = IntOfStr(txt_headers[HLimit]).v
        /\ extracted.total_pages = IntOfStr(txt_headers[HTotalPages]).v
        /\ extracted.total_tokens = IntOfStr(txt_headers[HTotalTokens]).v
        /\ extracted.has_next = (Lower(txt_headers[HHasNext]) = STrue)
        /\ extracted.has_prev = (Lower(txt_headers[HHasPrev]) = STrue)
        /\ txt_headers = GoodHeaders =>
               extracted = [t |-> "TxtResponseHeaders", page |-> 5, limit |-> 0 - 3,
                            total_pages |-> 12, has_next |-> TRUE, has_prev |-> FALSE,
                            total_tokens |-> 5]

\* C9 witness: the six well-formed headers above were extracted.
GoodHeadersExtracted ==
    /\ txt_headers = GoodHeaders
    /\ extracted # Pending
    /\ extracted # PyNone
    /\ extracted.page = 5 /\ extracted.has_next

(***************************************************************************)
(* Properties of the connection handles (Spec).                            *)
(***************************************************************************)
\* call c has passed _get_sync_client / _get_async_client
Resolved(c) == pc[c] \in {"attempt", "sleep", "done"} /\ client[c] # NoHandle

\* the field of the call's mode referred to an open handle when the call started
\* (no handle changes its state while a call of a sequential caller runs)
FoundOpenHandle(c) ==
    LET p == pre[c][mode[c]] IN p # NoHandle /\ handles[p] = "open"

\* C11: both handle fields are None until a request creates a handle; a request
\* that finds no open handle in the field of its mode creates exactly one and
\* stores it there; a request that finds an open one (no close since the
\* request that created it) uses that very handle and creates none. So no
\* handle is open besides the ones the two fields refer to.
HandleCreatedOnceAndReused ==
    /\ Len(handles) = 0 => sync_client = NoHandle /\ async_client = NoHandle
    /\ \A h \in 1..Len(handles) :
           handles[h] = "open" => h \in {sync_client, async_client}
    /\ \A c \in SeqCalls :
           Resolved(c) =>
               IF FoundOpenHandle(c)
               THEN /\ client[c] = pre[c][mode[c]]
                    /\ Len(handles) = pre[c].created
               ELSE /\ client[c] = pre[c].created + 1
                    /\ Len(handles) = pre[c].created + 1
                    /\ Field(mode[c]) = client[c]

\* C11 witness: a later sync request runs on the handle the first one created.
SecondRequestReusesHandle ==
    \E c \in SeqCalls :
        /\ pc[c] = "attempt" /\ mode[c] = "sync"
        /\ pre[c].sync = 1 /\ pre[c].created = 1
        /\ client[c] = 1 /\ sync_client = 1 /\ handles = <<"open">>

\* what a close of the handle in `field` does: the field is None afterwards; with
\* the field None before, nothing at all changes; otherwise the handle it
\* referred to had not been closed by the client before and is closed now
ClosesOnce(field, field_after) ==
    /\ field_after = NoHandle
    /\ field = NoHandle => UNCHANGED vars
    /\ field # NoHandle => handles[field] # "closed" /\ handles'[field] = "closed"

\* C12: close and close_async leave their field None; a close that finds the
\* field None (a second close, a close before any request) changes nothing;
\* the client never closes a handle it has closed before, and no field refers
\* to a handle the client has closed.
CloseIsIdempotent ==
    /\ [](\A h \in 1..Len(handles) :
             handles[h] = "closed" => h \notin {sync_client, async_client})
    /\ [][/\ Close => ClosesOnce(sync_client, sync_client')
          /\ CloseAsync => ClosesOnce(async_client, async_client')]_vars

\* C12 witness: the one handle the client created has been closed by close, the
\* field is None again and every further close finds nothing to do.
ClosedAndNulled ==
    /\ handles = <<"closed">>
    /\ sync_client = NoHandle /\ async_client = NoHandle
    /\ \A c \in SeqCalls : pc[c] = "idle"
    /\ ENABLED Close

\* C13: a sequential request never runs on a closed handle: whatever closes and
\* requests came before it, the handle its attempts are issued on is open and is
\* the one the field of its mode refers to; when the field referred to a closed
\* handle at call start, that handle is a fresh one.
RequestNeverUsesClosedHandle ==
    \A c \in SeqCalls :
        /\ pc[c] \in {"attempt", "sleep"} => Resolved(c)
        /\ Resolved(c) =>
               /\ handles[client[c]] = "open"
               /\ Field(mode[c]) = client[c]
               /\ LET p == pre[c][mode[c]]
                  IN  p # NoHandle /\ IsClosed(p) =>
                          client[c] # p /\ client[c] > pre[c].created

\* C13 witness: request, close, request, the second handle is closed outside
\* the client, request: the third request runs on a third, open handle.
ThirdRequestOnFreshHandle ==
    \E c \in SeqCalls :
        /\ pc[c] = "attempt" /\ mode[c] = "sync"
        /\ handles = <<"closed", "closed_outside", "open">>
        /\ pre[c].sync = 2
        /\ client[c] = 3 /\ sync_client = 3

\* the step leaves a handle field and the handle it refers to as they were
Untouched(field, field_after) ==
    /\ field_after = field
    /\ field # NoHandle => handles'[field] = handles[field]

\* the mode of the call c that takes the step
StepMode(c) == IF pc[c] = "idle" THEN mode'[c] ELSE mode[c]

\* C14: the two fields never refer to the same handle; a call runs on the
\* handle of its own mode's field; every step of a sync call and every close
\* leaves _async_client and its handle untouched, every step of an async call
\* and every close_async leaves _sync_client and its handle untouched.
ModesShareNoHandle ==
    /\ [](sync_client # NoHandle => sync_client # async_client)
    /\ [](\A c \in SeqCalls :
             Resolved(c) =>
                 client[c] = (IF mode[c] = "sync" THEN sync_client ELSE async_client))
    /\ [][/\ \A c \in SeqCalls :
                pc'[c] # pc[c] =>
                    IF StepMode(c) = "sync"
                    THEN Untouched(async_client, async_client')
                    ELSE Untouched(sync_client, sync_client')
          /\ Close => Untouched(async_client, async_client')
          /\ CloseAsync => Untouched(sync_client, sync_client')]_vars

\* C14 witness: an async request has created handle 1; a sync request then
\* created handle 2 and runs on it, with handle 1 still open in _async_client.
SyncCallBesideAsyncHandle ==
    \E c \in SeqCalls :
        /\ pc[c] = "attempt" /\ mode[c] = "sync" /\ client[c] = 2
        /\ sync_client = 2 /\ async_client = 1
        /\ handles = <<"open", "open">>

\* C17: whatever retries the client was constructed with, a call that ends
\* without a response has made at least one attempt and raises the transport
\* error it recorded, never the generic Context7APIError("Exhausted all retries").
GenericErrorUnreachable ==
    \A c \in SeqCalls :
        AllAttemptsFailed(c) =>
            /\ nAttempts[c] >= 1
            /\ outcome[c] = last_error[c]
            /\ outcome[c].exc = "RequestError"

(***************************************************************************)
(* Properties of the context manager (SpecBlock).                          *)
(***************************************************************************)
\* the handles the client created between entering and leaving the block
CreatedInBlock == (block.first + 1)..block.last

\* C15: once a `with` or `async with` block has been left, normally or by an
\* exception of a request, no handle the client created during the block is
\* open.
BlockExitClosesAllHandles ==
    block.kind \in {"exited", "async_exited"} =>
        \A h \in CreatedInBlock : handles[h] # "open"

(***************************************************************************)
(* request against request_async (SpecModes).                              *)
(***************************************************************************)
BothOver == pc["c1"] = "done" /\ pc["c2"] = "done"

\* C16: for the same arguments, the same retries and the same sequence of
\* per-attempt outcomes, request (c1) and request_async (c2) make the same number
\* of attempts, sleep for the same attempt indices in the same order (the delay
\* is _backoff of the index in both) and end with the same result or error;
\* each ran on the handle of its own mode.
SyncAndAsyncAgree ==
    /\ mode["c1"] = "sync"
    /\ pc["c2"] # "idle" => mode["c2"] = "async" /\ args["c2"] = args["c1"]
    /\ BothOver =>
           /\ nAttempts["c1"] = nAttempts["c2"]
           /\ sleeps["c1"] = sleeps["c2"]
           /\ got["c1"] = got["c2"]
           /\ outcome["c1"] = outcome["c2"]
           /\ client["c1"] # NoHandle =>
                  /\ client["c1"] = sync_client
                  /\ client["c2"] = async_client
                  /\ client["c1"] # client["c2"]

\* C16 witness: retries = 2, the first two attempts fail and the third receives
\* a response: both calls made three attempts, slept for indices 0 and 1 and
\* return the same value.
BothSucceedOnThirdAttempt ==
    /\ BothOver /\ retries = 2
    /\ script[1] = Fails /\ script[2] = Fails /\ script[3].kind = "respond"
    /\ nAttempts["c1"] = 3 /\ nAttempts["c2"] = 3
    /\ sleeps["c2"] = <<0, 1>>
    /\ outcome["c1"].kind = "return" /\ outcome["c2"].kind = "return"

(***************************************************************************)
(* Properties of the construction of Context7 (SpecKey).                   *)
(***************************************************************************)
\* the source supplies a non-empty key
Supplies(k) == k # PyNone /\ k.s # <<>>

\* the key construction has to use: the argument when it supplies one
KeyInForce == IF Supplies(api_key) THEN api_key.s ELSE env_key.s

\* C18: constructing Context7 raises Context7Error exactly when neither the
\* api_key argument nor CONTEXT7_API_KEY supplies a non-empty key, and then no
\* HttpClient is built; otherwise an HttpClient is built whose bearer token is
\* the argument when the argument supplies a key, the environment's key if not.
ConstructionFailsOnlyWithoutKey ==
    constructed # Pending =>
        IF ~Supplies(api_key) /\ ~Supplies(env_key)
        THEN /\ constructed.kind = "raise"
             /\ constructed.exc = "Context7Error"
             /\ constructed.http = NoHttp
        ELSE /\ constructed.kind = "return"
             /\ constructed.http.headers["Authorization"] = Bearer \o KeyInForce

\* C18 witness: the argument is "" and the variable is not set: construction
\* has raised Context7Error and there is no HttpClient.
EmptyArgumentAndNoEnvironmentFails ==
    /\ api_key = Key(<<>>) /\ env_key = PyNone
    /\ constructed.kind = "raise"
    /\ constructed.http = NoHttp

\* C19: a key that is present but does not start with "ctx7sk" makes
\* construction warn exactly once and succeed, with that very key as the bearer
\* token of the HttpClient; a key with the prefix gives no warning.
BadPrefixOnlyWarns ==
    constructed # Pending /\ (Supplies(api_key) \/ Supplies(env_key)) =>
        /\ constructed.kind = "return"
        /\ constructed.http.headers["Authorization"] = Bearer \o KeyInForce
        /\ constructed.warnings = (IF HasPrefix(KeyInForce, ApiKeyPrefix) THEN 0 ELSE 1)

\* C19 witness: the key "bad" comes from the environment: one warning, and the
\* client sends "Bearer bad".
BadKeyFromEnvironmentWarns ==
    /\ api_key = PyNone /\ env_key = Key(<<"b", "a", "d">>)
    /\ constructed.kind = "return"
    /\ constructed.warnings = 1
    /\ constructed.http.headers["Authorization"] = Bearer \o <<"b", "a", "d">>

(***************************************************************************)
(* Properties of the result of get_docs (SpecDocs).                        *)
(***************************************************************************)
\* the kind of value the requested format and mode stand for
KindRequested(req) ==
    IF req.format = "txt" THEN "TextDocsResponse"
    ELSE IF req.mode = "info" THEN "InfoDocsResponse"
    ELSE "CodeDocsResponse"

\* C20 as stated: for every 2xx response, get_docs returns a value of the kind
\* fixed by (format, mode), whatever content type the response declares.
EverySuccessReturnsRequestedKind ==
    docs_out # Pending =>
        /\ docs_out.kind = "return"
        /\ docs_out.value.t = KindRequested(docs_in)

\* the response carries what the request asked for: any body not declared JSON
\* for txt, a declared JSON object with all fields and snippets of the mode's
\* kind for json
CarriesRequested(req) ==
    IF req.format = "txt"
    THEN ~DeclaredJson(req.resp)
    ELSE /\ DeclaredJson(req.resp)
         /\ req.resp.body.kind = "object"
         /\ DocsFieldNames \subseteq DOMAIN req.resp.body.fields
         /\ \A i \in 1..Len(req.resp.body.fields.snippets) :
                req.resp.body.fields.snippets[i] = req.mode

\* C20, amended: for a 2xx response, whatever get_docs returns is of the kind
\* fixed by (format, mode), never of another kind; it returns whenever the
\* response carries what was asked for; a text response to format json, and a
\* declared-JSON response to format txt whose body is not a JSON string, make
\* the call raise instead of returning.
ReturnedKindFixedByRequest ==
    docs_out # Pending =>
        /\ docs_out.kind = "return" => docs_out.value.t = KindRequested(docs_in)
        /\ CarriesRequested(docs_in) => docs_out.kind = "return"
        /\ docs_in.format = "json" /\ ~DeclaredJson(docs_in.resp) =>
               docs_out = Raise("ValidationError")
        /\ docs_in.format = "txt" /\ DeclaredJson(docs_in.resp) =>
               IF docs_in.resp.body.kind = "string" THEN docs_out.kind = "return"
               ELSE docs_out.kind = "raise"

\* C20 witness: format txt, and the 2xx response declares JSON and carries a
\* JSON string: a TextDocsResponse is returned, with the defaulted pagination.
TxtRequestedJsonStringDeclared ==
    /\ docs_in.format = "txt"
    /\ docs_in.resp.headers = WithHeader(GoodHeaders, HContentType, AppJson)
    /\ docs_in.resp.body = JOther("string")
    /\ docs_out.kind = "return"
    /\ docs_out.value.t = "TextDocsResponse"
    /\ docs_out.value.pagination.page = 1
    /\ docs_out.value.total_tokens = 0

\* the call returned a TextDocsResponse built without a header set: the headers
\* _handle_response passed on are None (extraction failed, or the response was
\* declared JSON)
TxtWithoutHeaders ==
    /\ docs_out # Pending
    /\ docs_in.format = "txt"
    /\ docs_out.kind = "return"
    /\ HandleResponse(docs_in.resp).headers = PyNone

\* C21 as stated: a TextDocsResponse built without a header set carries page 0,
\* limit 0, totalPages 0, hasNext false, hasPrev false and totalTokens 0.
TxtDefaultsAreZero ==
    TxtWithoutHeaders =>
        /\ docs_out.value.pagination =
               [page |-> 0, limit |-> 0, total_pages |-> 0,
                has_next |-> FALSE, has_prev |-> FALSE]
        /\ docs_out.value.total_tokens = 0

\* C21, amended: a TextDocsResponse built without a header set carries page 1,
\* limit 0, totalPages 1, hasNext false, hasPrev false and totalTokens 0; one
\* built with a header set carries the six values of that set.
TxtDefaultsAreFirstPage ==
    /\ TxtWithoutHeaders =>
           /\ docs_out.value.pagination =
                  [page |-> 1, limit |-> 0, total_pages |-> 1,
                   has_next |-> FALSE, has_prev |-> FALSE]
           /\ docs_out.value.total_tokens = 0
    /\ (/\ docs_out # Pending /\ docs_in.format = "txt" /\ docs_out.kind = "return"
        /\ HandleResponse(docs_in.resp).headers # PyNone) =>
           LET h == ExtractTxtHeaders(docs_in.resp.headers)
           IN  /\ docs_out.value.pagination =
                      [page |-> h.page, limit |-> h.limit, total_pages |-> h.total_pages,
                       has_next |-> h.has_next, has_prev |-> h.has_prev]
               /\ docs_out.value.total_tokens = h.total_tokens

\* C21 witness: a text response whose page header is "abc": the extraction gave
\* None and the TextDocsResponse reports page 1 of 1.
TxtWithBadPageHeaderDefaulted ==
    /\ TxtWithoutHeaders
    /\ docs_in.resp.headers = WithHeader(BadPageHeaders, HContentType, TextPlain)
    /\ docs_out.value.pagination.page = 1
    /\ docs_out.value.pagination.total_pages = 1

\* C22: for format json the pagination of the returned value is the payload's
\* own pagination object, field for field, whatever x-context7-* headers the
\* response carries.
JsonPaginationFromPayload ==
    (docs_out # Pending /\ docs_in.format = "json" /\ docs_out.kind = "return") =>
        LET p == docs_in.resp.body.fields.pagination
            q == docs_out.value.pagination
        IN  /\ q.page = p.page
            /\ q.limit = p.limit
            /\ q.total_pages = p.totalPages
            /\ q.has_next = p.hasNext
            /\ q.has_prev = p.hasPrev

\* C22 witness: the payload says page 2, limit 3 of 4 pages while the headers
\* say page 5, limit -3 of 12: the result reports the payload's block.
PayloadPaginationBesideHeaders ==
    /\ docs_in.format = "json" /\ docs_in.mode = "code"
    /\ docs_in.resp.headers = WithHeader(GoodHeaders, HContentType, AppJson)
    /\ docs_in.resp.body = DocsObject(<<"code">>, SecondPage)
    /\ docs_out.kind = "return"
    /\ docs_out.value.pagination.page = 2
    /\ docs_out.value.pagination.limit = 3
    /\ docs_out.value.pagination.total_pages = 4

(***************************************************************************)
(* Properties of get_context (SpecContext).                                *)
(***************************************************************************)
IsDocumentationList(value) ==
    /\ "t" \in DOMAIN value
    /\ value.t = "list"
    /\ \A i \in 1..Len(value.docs) : value.docs[i].t = "Documentation"

\* C23: get_context / get_context_async called without a `type` argument
\* returns JSON by default: whenever such a call returns, what it returns is a
\* list of Documentation objects, not a str.
ContextIsJsonByDefault ==
    (ctx_out # Pending /\ ctx_in.type = "absent" /\ ctx_out.kind = "return") =>
        IsDocumentationList(ctx_out.value)

(***************************************************************************)
(* Properties of _backoff (SpecBackoff).                                   *)
(***************************************************************************)
\* C24: for every retry_count n >= 0 the delay is e^n * 0.05 seconds, a fixed
\* function of n (no jitter) that keeps growing (no cap): the delay of n is
\* 1/20 * e^n, and it is longer than the delay of n - 1.
BackoffIsExponential ==
    delay # Pending =>
        /\ delay = [num |-> 1, den |-> 20, e_pow |-> retry_count]
        /\ retry_count > 0 => Less(Backoff(retry_count - 1), delay)

\* C24 witness: the delay of retry_count 7 is 1/20 * e^7, past the delay of 6.
BackoffOfSeven ==
    /\ retry_count = 7
    /\ delay = [num |-> 1, den |-> 20, e_pow |-> 7]
    /\ Less([num |-> 1, den |-> 20, e_pow |-> 6], delay)

\* the seconds call c has slept, in order: time.sleep(self._backoff(attempt))
Slept(c) == [i \in 1..Len(sleeps[c]) |-> Backoff(sleeps[c][i])]

\* C25: a call sleeps only between attempts, for _backoff of the zero-based
\* index of the attempt that just failed: the sleeps are backoff(0),
\* backoff(1), ... in order, one after each failed attempt that has an attempt
\* left; none before the first attempt, none after the last failed attempt (a
\* call whose attempts all failed has slept `retries` times), none after an
\* attempt that received a response.
SleepsOnlyBetweenAttempts ==
    \A c \in Calls :
        /\ Slept(c) = [i \in 1..Len(sleeps[c]) |-> [num |-> 1, den |-> 20, e_pow |-> i - 1]]
        /\ pc[c] \notin {"attempt", "sleep", "done"} => sleeps[c] = <<>>
        /\ pc[c] = "attempt" => Len(sleeps[c]) = nAttempts[c]
        /\ pc[c] = "sleep" =>
               /\ Len(sleeps[c]) = nAttempts[c]
               /\ nAttempts[c] <= retries
               /\ got[c] = NoResponse
        /\ (pc[c] = "done" /\ nAttempts[c] > 0) => Len(sleeps[c]) = nAttempts[c] - 1
        /\ (AllAttemptsFailed(c) /\ nAttempts[c] > 0) => Len(sleeps[c]) = retries

\* C25 witness: retries = 3, a sync call has failed four times and has slept
\* backoff(0), backoff(1), backoff(2).
ThreeSleepsInFourAttempts ==
    \E c \in Calls :
        /\ retries = 3 /\ mode[c] = "sync" /\ AllAttemptsFailed(c)
        /\ nAttempts[c] = 4
        /\ Slept(c) = <<Backoff(0), Backoff(1), Backoff(2)>>

(***************************************************************************)
(* Properties of the arguments of client.request (SpecRequest).            *)
(***************************************************************************)
\* the entries of the caller's query whose value is not None
Supplied(query) == {k \in DOMAIN QueryOrEmpty(query) : query[k] # PyNone}

\* C27: the query parameters a GET transmits are exactly the entries of the
\* caller's query whose value is not None, each with the caller's value: an
\* entry is dropped if and only if its value is None; 0, "" and False are sent.
GetSendsEveryEntryButNone ==
    \A i \in 1..Len(req_out) :
        req_in.method = "GET" =>
            /\ DOMAIN req_out[i].params = Supplied(req_in.query)
            /\ \A k \in Supplied(req_in.query) : req_out[i].params[k] = req_in.query[k]

\* C27 witness: a GET with query {"query": "", "page": 0} has sent both entries.
FalsyValuesAreSent ==
    /\ req_in.method = "GET"
    /\ req_in.query = [query |-> Str(""), page |-> Num(0)]
    /\ Len(req_out) > 0
    /\ req_out[1].params = [query |-> Str(""), page |-> Num(0)]

\* C28: in every attempt the body is attached only to a POST and the query
\* parameters only to a GET: a GET carries no body, a POST no query
\* parameters, no attempt carries both, and every retry of a call carries what
\* its first attempt carried.
BodyOrParamsByMethod ==
    \A i \in 1..Len(req_out) :
        /\ req_out[i].json # PyNone => req_in.method = "POST"
        /\ req_out[i].params # PyNone => req_in.method = "GET"
        /\ req_in.method = "POST" => req_out[i].json = req_in.body
        /\ req_out[i].json = PyNone \/ req_out[i].params = PyNone
        /\ req_out[i] = req_out[1]

\* C28 witness: a POST with a body and a query has made three attempts, each
\* with the body and without query parameters.
PostRetriedWithBodyOnly ==
    /\ req_in.method = "POST"
    /\ req_in.body # PyNone
    /\ req_in.query = [query |-> Str("react"), page |-> Num(0)]
    /\ Len(req_out) = 3
    /\ \A i \in 1..3 : req_out[i].json = req_in.body /\ req_out[i].params = PyNone

(***************************************************************************)
(* Properties of the request of get_docs (SpecBuild).                      *)
(***************************************************************************)
\* the optional arguments of get_docs the caller supplied
SuppliedOptions(a) == {k \in {"page", "limit", "topic"} : a[k] # PyNone}

\* C29: for a valid library_id get_docs builds the path "v2", "docs", mode,
\* owner, repo, followed by the version exactly when a non-empty version is
\* given, and the query {type, page, limit, topic}: `type` is always
\* transmitted with the format, and each of page, limit, topic is transmitted,
\* with the caller's value, if and only if the caller supplied it.
DocsRequestPathAndQuery ==
    (build_out # Pending /\ build_out.kind = "return") =>
        LET split == ValidateLibraryId(build_in.library_id)
            head == <<"v2", "docs", build_in.mode, split.owner, split.repo>>
            given == build_in.version # PyNone /\ build_in.version # Str("")
        IN  /\ given => build_out.path = Append(head, build_in.version.s)
            /\ ~given => build_out.path = head
            /\ DOMAIN build_out.query = {"type", "page", "limit", "topic"}
            /\ DOMAIN build_out.sent.params = {"type"} \cup SuppliedOptions(build_in)
            /\ build_out.sent.params.type = Str(build_in.format)
            /\ \A k \in SuppliedOptions(build_in) : build_out.sent.params[k] = build_in[k]

\* C29 witness: get_docs("/a/b/a", version="", page=0, topic="", format="txt",
\* mode="info") asks for v2/docs/info/a/b/a with type, page and topic.
EmptyVersionZeroPageSent ==
    /\ build_out # Pending
    /\ build_out.kind = "return"
    /\ build_in.version = Str("") /\ build_in.page = Num(0) /\ build_in.limit = PyNone
    /\ build_out.path = <<"v2", "docs", "info", <<"a">>, <<"b", "/", "a">>>>
    /\ build_out.sent.params = [type |-> Str("txt"), page |-> Num(0), topic |-> Str("")]

(***************************************************************************)
(* Properties of the boolean headers (SpecExtract).                        *)
(***************************************************************************)
\* the header is present and its value, lower-cased, is "true"
SaysTrue(headers, name) == Has(headers, name) /\ Lower(headers[name]) = STrue

\* C30: a boolean header is read as "true" against anything else, whatever the
\* case: has_next (has_prev) is true if and only if the x-context7-has-next
\* (x-context7-has-prev) value lower-cased is "true"; any other value gives
\* false, and no value of a boolean header makes the extraction fail: it
\* returns None only when an integer header does not parse.
BoolHeadersReadAsTrueOrNot ==
    extracted # Pending =>
        /\ (extracted = PyNone) = (\E n \in IntHeaderNames : MalformedInt(txt_headers, n))
        /\ extracted # PyNone =>
               /\ extracted.has_next = SaysTrue(txt_headers, HHasNext)
               /\ extracted.has_prev = SaysTrue(txt_headers, HHasPrev)

\* C30 witness: has-next "maybe" and has-prev "True" beside a page "5" were
\* extracted as has_next false and has_prev true.
MaybeIsFalseTrueIsTrue ==
    /\ extracted # Pending
    /\ extracted # PyNone
    /\ Has(txt_headers, HHasNext) /\ txt_headers[HHasNext] = <<"m", "a", "y", "b", "e">>
    /\ Has(txt_headers, HHasPrev) /\ txt_headers[HHasPrev] = <<"T", "r", "u", "e">>
    /\ ~extracted.has_next
    /\ extracted.has_prev

(***************************************************************************)
(* Properties of absent headers (SpecExtract).                             *)
(***************************************************************************)
\* C31: an absent header is defaulted before parsing, not taken as malformed:
\* when every integer header that is present parses, the extraction returns a
\* structure in which each absent integer header is 0 and each absent boolean
\* header false, so no header at all gives (0, 0, 0, false, false, 0); None is
\* returned only when some present integer header does not parse.
AbsentHeadersAreDefaulted ==
    extracted # Pending =>
        /\ extracted = PyNone => \E n \in IntHeaderNames : MalformedInt(txt_headers, n)
        /\ extracted # PyNone =>
               /\ ~Has(txt_headers, HPage) => extracted.page = 0
               /\ ~Has(txt_headers, HLimit) => extracted.limit = 0
               /\ ~Has(txt_headers, HTotalPages) => extracted.total_pages = 0
               /\ ~Has(txt_headers, HTotalTokens) => extracted.total_tokens = 0
               /\ ~Has(txt_headers, HHasNext) => ~extracted.has_next
               /\ ~Has(txt_headers, HHasPrev) => ~extracted.has_prev
        /\ txt_headers = NoHeaders =>
               extracted = [t |-> "TxtResponseHeaders", page |-> 0, limit |-> 0,
                            total_pages |-> 0, has_next |-> FALSE, has_prev |-> FALSE,
                            total_tokens |-> 0]

\* C31 witness: no custom header at all was extracted as a structure of zeros.
NoHeadersExtractedAsZeros ==
    /\ txt_headers = NoHeaders
    /\ extracted # Pending
    /\ extracted # PyNone
    /\ extracted.page = 0 /\ extracted.total_tokens = 0 /\ ~extracted.has_next

(***************************************************************************)
(* Properties of overlapping calls (SpecCoroutines, SpecThreads).          *)
(***************************************************************************)
\* the retry state of call c and what the call ends with
Locals(c) == <<attempt[c], last_error[c], nAttempts[c], sleeps[c], got[c], outcome[c]>>

\* call c has counted its own attempts and recorded its own failures
CountsItsOwn(c) ==
    /\ nAttempts[c] <= retries + 1
    /\ pc[c] = "attempt" => attempt[c] = nAttempts[c]
    /\ pc[c] \in {"attempt", "sleep"} =>
           last_error[c] = IF nAttempts[c] = 0 THEN PyNone
                           ELSE RequestError(nAttempts[c] - 1)
    /\ (pc[c] = "done" /\ outcome[c].kind = "raise" /\ outcome[c].exc = "RequestError") =>
           /\ nAttempts[c] = retries + 1
           /\ outcome[c] = RequestError(retries)

\* C32: the retry state of a call is local to the call: when two calls on one
\* client overlap, each counts its own attempts and failures only, makes at
\* most retries + 1 attempts and raises its own last transport error, and no
\* step of one call changes the attempt count, the recorded error or the
\* outcome of the other.
RetryStateIsCallLocal ==
    /\ [](\A c \in Calls : CountsItsOwn(c))
    /\ [][\A c, d \in Calls :
              (c # d /\ Locals(c)' # Locals(c)) => Locals(d)' = Locals(d)]_vars

\* C32 witness: retries = 1; c2 has failed twice and raised its second error
\* while c1 sleeps after its first failure.
OneSleepsOneExhausted ==
    /\ retries = 1
    /\ pc["c1"] = "sleep" /\ nAttempts["c1"] = 1 /\ last_error["c1"] = RequestError(0)
    /\ pc["c2"] = "done" /\ nAttempts["c2"] = 2 /\ outcome["c2"] = RequestError(1)

\* both calls arrived before any handle existed and have resolved theirs, and
\* no handle has been closed
RacedForFirstHandle ==
    /\ \A c \in Calls : pre[c].created = 0 /\ pc[c] \in {"attempt", "sleep", "done"}
    /\ \A h \in 1..Len(handles) : handles[h] = "open"
    /\ closing = NoClosing

\* C33: under any interleaving of two blocking calls that arrive on different
\* threads before the first sync handle exists, at most one sync handle is
\* created, both calls use it, and every handle created is the one the field
\* holds (a later close() closes it, none is left open).
RacingCallsShareOneHandle ==
    RacedForFirstHandle =>
        /\ Len(handles) <= 1
        /\ client["c1"] = client["c2"]
        /\ \A h \in 1..Len(handles) : h = sync_client

\* C34: under any interleaving of close_async with request_async calls, every
\* async handle the client created is closed or is the one the field holds:
\* close_async never clears the field of a handle that a request created while
\* the close was under way, so with every call over and close_async returned
\* no async handle is open.
NoAsyncHandleIsLeaked ==
    /\ \A h \in 1..Len(handles) : handles[h] = "open" => h = async_client
    /\ (async_client = NoHandle /\ closing = NoClosing) =>
           \A h \in 1..Len(handles) : handles[h] # "open"

\* call c is in its retry loop
InLoop(c) == pc[c] \in {"attempt", "sleep"}

\* C35: a call resolves its handle once, before its first attempt, and issues
\* every attempt on that handle: inside the loop the call's handle does not
\* change and the call creates none, so when the handle is closed between two
\* attempts the next attempt runs on the closed handle (and fails on it), not
\* on a fresh one.
HandleResolvedOncePerCall ==
    /\ [](\A c \in Calls :
              (pc[c] = "done" /\ outcome[c] = Raise("RuntimeError")) =>
                  IsClosed(client[c]))
    /\ [][\A c \in Calls :
              InLoop(c) =>
                  /\ client'[c] = client[c]
                  /\ Locals(c)' # Locals(c) => UNCHANGED clientVars]_vars

\* C35 witness: retries = 1; the handle of c1 was closed after its first
\* attempt failed, and its second attempt ran on that closed handle.
SecondAttemptOnClosedHandle ==
    /\ retries = 1
    /\ pc["c1"] = "done"
    /\ nAttempts["c1"] = 2
    /\ sleeps["c1"] = <<0>>
    /\ handles[client["c1"]] = "closed"
    /\ outcome["c1"] = Raise("RuntimeError")

(***************************************************************************)
(* Properties of a failed call (Spec).                                     *)
(***************************************************************************)
\* call c is over and has raised
Failed(c) == pc[c] = "done" /\ outcome[c].kind = "raise"

\* C36: a failed call leaves the client as it was, lazy handle creation
\* apart: when a call has raised (Context7APIError, the transport error of
\* the last attempt, Context7ValidationError), the handle of its mode is
\* open and still the one in the field, so that the next call of the mode
\* takes it; a call that raised before resolving a handle has touched no
\* field and no handle; the steps that end a call and `retries` never change
\* the client; and the next call starts its count of attempts at 0.
FailedCallLeavesClientAlone ==
    /\ [](\A c \in SeqCalls :
              Failed(c) =>
                  IF Resolved(c)
                  THEN /\ Field(mode[c]) = client[c]
                       /\ handles[client[c]] = "open"
                       /\ (mode[c] = "sync" => ~NeedsHandle(sync_client))
                       /\ (mode[c] = "async" => ~NeedsHandleAsync(async_client))
                  ELSE /\ sync_client = pre[c].sync
                       /\ async_client = pre[c].async
                       /\ Len(handles) = pre[c].created)
    /\ [][/\ retries' = retries
          /\ \A c \in SeqCalls :
                 /\ (InLoop(c) \/ pc[c] = "done") => UNCHANGED clientVars
                 /\ (pc[c] = "done" /\ pc'[c] = "idle") =>
                        /\ nAttempts'[c] = 0 /\ attempt'[c] = 0
                        /\ last_error'[c] = PyNone /\ sleeps'[c] = <<>>]_vars

\* C36 witness: a sync call that took over the handle of an earlier call was
\* refused with 429 and has raised Context7APIError; the field still holds
\* that handle, open.
RefusedCallKeepsHandle ==
    \E c \in SeqCalls :
        /\ Failed(c) /\ mode[c] = "sync"
        /\ outcome[c].exc = "Context7APIError"
        /\ got[c] # NoResponse /\ got[c].status_code = 429
        /\ pre[c].sync = 1 /\ client[c] = 1 /\ sync_client = 1
        /\ handles = <<"open">>

(***************************************************************************)
(* Termination of a call (SpecLive).                                       *)
(***************************************************************************)
\* call c is in request / request_async and can go on: it is in the loop, or
\* before it with a handle to take or room to create one
Running(c) ==
    \/ InLoop(c)
    \/ /\ pc[c] = "resolve"
       /\ \/ Len(handles) < MaxHandles
          \/ ~(IF mode[c] = "sync" THEN NeedsHandle(sync_client)
                                   ELSE NeedsHandleAsync(async_client))

\* C37: every call terminates: with every attempt and every sleep ending, a
\* call that is in request / request_async eventually has returned or
\* raised, and at no time has it made more than retries+1 attempts or, once
\* it has made an attempt, more than `retries` sleeps (a call that makes no
\* attempt does not sleep).
EveryCallTerminates ==
    /\ [](\A c \in SeqCalls :
              /\ nAttempts[c] <= retries + 1
              /\ (nAttempts[c] > 0 => Len(sleeps[c]) <= retries)
              /\ (nAttempts[c] = 0 => sleeps[c] = <<>>))
    /\ \A c \in SeqCalls :
           Running(c) ~> (pc[c] = "done" /\ outcome[c].kind \in {"return", "raise"})

\* C37 witness: an async call with retries = 2 has ended at the bound, after
\* three attempts and two sleeps.
EndedAtTheBound ==
    \E c \in SeqCalls :
        /\ pc[c] = "done" /\ mode[c] = "async" /\ retries = 2
        /\ outcome[c].kind = "raise"
        /\ nAttempts[c] = 3 /\ sleeps[c] = <<0, 1>>

(***************************************************************************)
(* A text response with a header set (SpecDocs).                           *)
(***************************************************************************)
\* format txt was asked for and request handed a text body on with a header
\* set
TxtWithHeaders ==
    /\ docs_out # Pending
    /\ docs_in.format = "txt"
    /\ HandleResponse(docs_in.resp).kind = "return"
    /\ ~DeclaredJson(docs_in.resp)
    /\ HandleResponse(docs_in.resp).headers # PyNone

\* C38: when the format is txt and the header extraction gave a header set,
\* get_docs returns a TextDocsResponse whose pagination is that set's page,
\* limit, total_pages, has_next and has_prev, whose total_tokens is the
\* set's, and whose content is the text of the response body, none of them
\* changed on the way.
TxtResponseCarriesHeaderSet ==
    TxtWithHeaders =>
        LET set == HandleResponse(docs_in.resp).headers
        IN  docs_out =
                Returned([t |-> "TextDocsResponse",
                          content |-> Text(docs_in.resp.body),
                          pagination |->
                              [page |-> set.page, limit |-> set.limit,
                               total_pages |-> set.total_pages,
                               has_next |-> set.has_next, has_prev |-> set.has_prev],
                          total_tokens |-> set.total_tokens])

\* C38 witness: a text/plain response "# docs" with the headers of page 5 of
\* 12, limit -3, a next page, no previous page, 5 tokens: all six are in the
\* TextDocsResponse, with the text.
TxtResponseOfPageFive ==
    /\ TxtWithHeaders
    /\ docs_in.resp.headers = WithHeader(GoodHeaders, HContentType, TextPlain)
    /\ docs_in.resp.body = NotJson("# docs")
    /\ docs_out.kind = "return"
    /\ docs_out.value.content = Text(NotJson("# docs"))
    /\ docs_out.value.pagination =
           [page |-> 5, limit |-> -3, total_pages |-> 12,
            has_next |-> TRUE, has_prev |-> FALSE]
    /\ docs_out.value.total_tokens = 5

(***************************************************************************)
(* Properties of search_library (SpecSearch).                              *)
(***************************************************************************)
\* the answer is a success that declares JSON and carries an object with a
\* `results` list
CarriesResults(resp) ==
    /\ IsSuccess(resp.status_code)
    /\ DeclaredJson(resp)
    /\ resp.body.kind = "object"
    /\ "results" \in DOMAIN resp.body.fields

\* C39: for every successful JSON response whose payload is an object with a
\* `results` list, search_library / search_library_async returns a list with
\* one Library per element of `results`, in the same order, with id, title
\* (as name) and description copied and an absent total_snippets,
\* trust_score or benchmark_score defaulted to 0.
SearchReturnsOneLibraryPerResult ==
    (ctx_out # Pending /\ CarriesResults(ctx_in.resp)) =>
        /\ ctx_out.kind = "return"
        /\ LET items == ctx_in.resp.body.fields.results
               libs == ctx_out.value.libs
           IN  /\ Len(libs) = Len(items)
               /\ \A i \in 1..Len(items) :
                      /\ libs[i].id = items[i].id
                      /\ libs[i].name = items[i].title
                      /\ libs[i].description = items[i].description
                      /\ "total_snippets" \notin DOMAIN items[i] =>
                             libs[i].total_snippets = Num(0)
                      /\ "trust_score" \notin DOMAIN items[i] =>
                             libs[i].trust_score = Num(0)
                      /\ "benchmark_score" \notin DOMAIN items[i] =>
                             libs[i].benchmark_score = Num(0)

====
